---- MODULE Spec2Model ----
(***************************************************************************)
(* The OAuth 2.0 authorization server, the MCP session broker and the      *)
(* rate limiter of vin-mcp's HTTP server (src/unnamed/part_000, the --http *)
(* branch), and the report cache LRUCache (src/unnamed/part_003).          *)
(*                                                                         *)
(* Date.now() is counted in seconds instead of milliseconds, so that the   *)
(* 30-day refresh lifetime stays inside TLC's integers; every lifetime is  *)
(* a whole number of seconds in the source.                                *)
(*                                                                         *)
(* crypto.randomBytes(32).toString('hex') never repeats a value.  The      *)
(* model counts the values handed out per kind (CSRF token, code, token):  *)
(* the n-th value of a kind is the integer n, and a value of one kind is   *)
(* unknown to the stores of the other kinds.  crypto.randomUUID() is       *)
(* modelled the same way.                                                  *)
(***************************************************************************)
EXTENDS Integers, Sequences, FiniteSets, TLC

VARIABLES
    now,          \* Date.now()
    nCsrf,        \* how many CSRF tokens crypto.randomBytes has handed out
    nCodes,       \* how many authorization codes
    nTokens,      \* how many access and refresh tokens
    clients,      \* Map client_id -> client record
    authCodes,    \* Map code -> {client_id, redirect_uri, code_challenge, ..., expires}
    tokens,       \* Map token -> {type, client_id, expires}
    csrfTokens,   \* Map csrf -> {expires}
    used,         \* history: <<kind, value>> of every CSRF token accepted, code and refresh token exchanged
    mcpSessions,  \* Map mcp-session-id -> session object (named by its transport)
    sessions,     \* the session objects {server, transport, expires_at}, by transport
    inflight,     \* the /mcp handlers suspended at an await
    nTransports,  \* how many StreamableHTTPServerTransport objects were constructed
    nSids,        \* how many session ids the transports' sessionIdGenerator handed out
    apiLimits,    \* Map ip -> {count, reset} of the rate limiter
    admitted,     \* history: per ip and route, the requests admitted in the ip's last window
    query,        \* req.query of a GET /oauth/authorize, as character sequences
    page,         \* the body sent in answer to it, as a character sequence
    vinCache,     \* this.map of the LRUCache vinCache: its entries in insertion order
    recency,      \* history: the keys by their last set or successful read (get or has)
    lastGetSet,   \* history: the keys by their last set or successful call of get
    setAt         \* history: per key, the time of its last set

rands == <<nCsrf, nCodes, nTokens>>
oauthVars == <<rands, clients, authCodes, tokens, csrfTokens, used>>
mcpVars == <<mcpSessions, sessions, inflight, nTransports, nSids>>
rateVars == <<apiLimits, admitted>>
htmlVars == <<query, page>>
cacheVars == <<vinCache, recency, lastGetSet, setAt>>
vars == <<now, rands, clients, authCodes, tokens, csrfTokens, used, mcpVars, rateVars,
          htmlVars, cacheVars>>

---------------------------------------------------------------------------
(* Bounds of the model *)

\* MAX_OAUTH_CLIENTS is 500 in the source; the registry cap is scaled down.
MAX_OAUTH_CLIENTS == 2
\* consent pages rendered, codes minted and tokens issued in one run
MaxCsrf == 1
MaxCodes == 2
MaxTokens == 6
\* the clock stops advancing here
MaxTime == 2600000
\* MAX_MCP_SESSIONS is 200 in the source; the session cap is scaled down.
MAX_MCP_SESSIONS == 1
\* /mcp handlers that can be suspended at an await at the same time
MaxInflight == 2
\* transports constructed in one run
MaxTransports == 2
\* the clock of the session broker stops advancing here: two session lifetimes,
\* which is also the lifetime of an access token, and the instant after
MaxSessionTime == 3601
\* the limits of rateGuard are 5, 30 and 60 in the source; they are scaled down
LimitBatch == 2
LimitMost == 3
LimitValidation == 4
\* the clock of the rate limiter stops advancing here: three windows
MaxRateTime == 183
\* max of vinCache is 1000 in the source; it is scaled down
VinCacheMax == 2

(* Lifetimes, in seconds *)
CSRF_TTL    == 10 * 60
CODE_TTL    == 10 * 60
ACCESS_TTL  == 3600
REFRESH_TTL == 30 * 86400
SESSION_TTL == 30 * 60
RATE_WINDOW == 60
\* ttl of vinCache, 60 * 60 * 1000 ms
VinCacheTtl == 60 * 60
\* the clock of the cache stops advancing here: two lifetimes and the instant after
MaxCacheTime == 2 * VinCacheTtl + 1

---------------------------------------------------------------------------
(* Values a request can carry *)

\* a form field or header that is absent (JavaScript undefined)
Undefined == "undefined"
\* a random value or identifier the server never issued
Bogus == -1
\* an absent random value or identifier
Absent == 0

UriA == "https://a.example/cb"
UriB == "https://b.example/cb"
\* the redirect_uri values a request carries; new URL(undefined) throws like any unparsable string
Uris == {UriA, UriB, Undefined}

\* new URL(s) throws a TypeError unless s parses as an absolute URL
IsUrl(s) == s \in {UriA, UriB}

\* !x in JavaScript, for a string-valued field
Falsy(s) == s = Undefined \/ s = ""

\* crypto.createHash('sha256').update(v).digest('base64url')
S256(v) ==
    CASE v = "abc" -> "ungWv48Bz-pBQUDeXa4iI7ADYaOWF3qctBD_YfIAFa0"
      [] v = "xyz" -> "Ngi8oeROpsTSaOttsCJgJpiSwLQrhrvx53pvoWw8koI"
      [] OTHER     -> "sha256(" \o v \o ")"

\* the code_verifier values a request carries: none, the right one, and the challenge itself
Verifiers  == {Undefined, "abc", S256("abc")}
\* the code_challenge values a request carries
Challenges == {Undefined, S256("abc")}

\* req.body.redirect_uris of a registration: an array of strings or anything else
RegistrationUris ==
    {[isArray |-> FALSE, items |-> <<>>]} \cup
    {[isArray |-> TRUE, items |-> l] : l \in {<<UriA>>, <<UriA, UriB>>}}

\* The random values a request presents to a store: the keys the store holds, the
\* values already consumed, a value that was never issued, and none.  Any other
\* value is as unknown to the store as the one never issued.
Presentable(store, kind) ==
    DOMAIN store \cup {v \in 1..MaxTokens : <<kind, v>> \in used} \cup {Bogus, Absent}
\* the client_id values a request carries
ClientIdsSeen == (1..MAX_OAUTH_CLIENTS) \cup {Bogus}

\* text a query parameter carries: plain, markup that closes the attribute and opens
\* a tag, text that reads like an entity, quotes and ampersands
Texts == {<<"a">>, <<"\"", ">", "<", "b", ">">>, <<"&", "l", "t", ";">>, <<"'", "&">>}
\* a parameter that is absent or empty
NoText == <<>>
NoQuery == [client_id |-> NoText, redirect_uri |-> NoText, state |-> NoText,
            code_challenge |-> NoText, code_challenge_method |-> NoText,
            scope |-> NoText]

---------------------------------------------------------------------------
(* Helpers *)

Has(map, k) == k \in DOMAIN map
Delete(map, k) == [x \in DOMAIN map \ {k} |-> map[x]]
Set(map, k, v) == [x \in DOMAIN map \cup {k} |-> IF x = k THEN v ELSE map[x]]
\* slip: a registered URI matches when it starts like the submitted one
Includes_Prefix(seq, x) == \E i \in 1..Len(seq) : SubSeq(seq[i], 1, 8) = SubSeq(x, 1, 8)

Includes(seq, x) == \E i \in 1..Len(seq) : seq[i] = x

\* String(u).slice(0, n)
Slice(u, n) == IF Len(u) <= n THEN u ELSE SubSeq(u, 1, n)

\* the characters of a string, one by one
Chars(str) == [i \in 1..Len(str) |-> SubSeq(str, i, i)]

RECURSIVE Replace(_, _, _)
\* text.replace(/ch/g, ent): every occurrence of the character, from left to right
Replace(text, ch, ent) ==
    IF text = <<>> THEN <<>>
    ELSE (IF Head(text) = ch THEN ent ELSE <<Head(text)>>) \o Replace(Tail(text), ch, ent)


---------------------------------------------------------------------------
(* A handler is a function of the request and the stores: it yields the     *)
(* response and the stores as it leaves them.  The action of the endpoint   *)
(* applies it.                                                              *)

\* a response without a body the model reads
None == [none |-> TRUE]
\* a slot of `inflight` that holds no suspended handler
NoRequest == [method |-> "none", pc |-> "idle", sid |-> Absent, tid |-> Absent,
              kind |-> "none"]

\* res.status(status) with error / error_description (or the text sent) and the body `out`
Response(status, error, desc, out) ==
    [status |-> status, error |-> error, desc |-> desc, out |-> out]

---------------------------------------------------------------------------
(* rateGuard(max): the per-IP counter is an admission gate in front of the  *)
(* handler; when it refuses, the handler does not run and the answer is 429 *)

GuardedEndpoints == {"register", "authorize", "approve", "token", "mcp"}

RateLimited(ep) == UNCHANGED vars

\* the client addresses req.ip takes
Ips == {"198.51.100.1", "198.51.100.2"}
\* the routes of the REST API, by the limit their rateGuard is built with
Routes == {"batch", "vin", "validate"}
\* rateGuard(5) for batch, rateGuard(30) for reports and their parts, rateGuard(60)
\* for validation and photos
Limit(route) ==
    CASE route = "batch"    -> LimitBatch
      [] route = "vin"      -> LimitMost
      [] route = "validate" -> LimitValidation

NoneAdmitted == [ip \in Ips |-> [route \in Routes |-> 0]]

\* slip: the request that finds the count at the limit is still admitted
LimitReached_OffByOne(rl, max) == rl.count > max

\* rl.count >= max
LimitReached(rl, max) == rl.count >= max

\* !rl || now > rl.reset
WindowOver(ip) == ~Has(apiLimits, ip) \/ now > apiLimits[ip].reset

\* checkRate(ip, max): whether the request is admitted, and the map as it leaves it
checkRate(ip, max) ==
    IF WindowOver(ip)
    THEN [ok |-> TRUE,
          apiLimits |-> Set(apiLimits, ip, [count |-> 1, reset |-> now + RATE_WINDOW])]
    ELSE IF LimitReached(apiLimits[ip], max)
    THEN [ok |-> FALSE, apiLimits |-> apiLimits]
    ELSE [ok |-> TRUE, apiLimits |-> [apiLimits EXCEPT ![ip].count = @ + 1]]

\* the middleware rateGuard(max) returns: 429, or next() which runs the handler
rateGuard(ip, max) ==
    LET r == checkRate(ip, max) IN
    [res |-> IF r.ok THEN None
             ELSE Response(429, "Rate limited. Try again in a minute.", "", None),
     next |-> r.ok,
     apiLimits |-> r.apiLimits]

\* a request from `ip` to a route of the REST API passes through the route's guard
Request(ip, route) ==
    LET r == rateGuard(ip, Limit(route)) IN
    /\ apiLimits' = r.apiLimits
    /\ admitted' =
          IF ~r.next THEN admitted
          ELSE IF WindowOver(ip)
          THEN [admitted EXCEPT ![ip] = [x \in Routes |-> IF x = route THEN 1 ELSE 0]]
          ELSE [admitted EXCEPT ![ip][route] = @ + 1]
    /\ UNCHANGED <<now, oauthVars, mcpVars, htmlVars, cacheVars>>

\* setInterval(..., 300000): entries whose window is over are deleted
SweepLimits ==
    /\ apiLimits' = [ip \in {x \in DOMAIN apiLimits : ~(now > apiLimits[x].reset)}
                        |-> apiLimits[ip]]
    /\ UNCHANGED <<now, oauthVars, mcpVars, admitted, htmlVars, cacheVars>>

\* the clock steps to the end of a window or to the instant after it
TickRate ==
    /\ \E ip \in DOMAIN apiLimits, d \in {0, 1} :
          /\ apiLimits[ip].reset + d > now
          /\ apiLimits[ip].reset + d <= MaxRateTime
          /\ now' = apiLimits[ip].reset + d
    /\ UNCHANGED <<oauthVars, mcpVars, rateVars, htmlVars, cacheVars>>

---------------------------------------------------------------------------
(* LRUCache, and vinCache = new LRUCache(1000, 60 * 60 * 1000) *)

\* the VINs that are looked up
Keys == {"vinA", "vinB", "vinC"}
\* the reports that are stored; every caller stores an object, never undefined
Values == {"report1", "report2"}
NoEntry == [none |-> TRUE]
NoKeys == [k \in Keys |-> Bogus]

\* this.map, a JavaScript Map, as the sequence of its entries in insertion order
mapHas(m, key) == \E i \in 1..Len(m) : m[i].key = key
mapGet(m, key) ==
    IF mapHas(m, key) THEN m[CHOOSE i \in 1..Len(m) : m[i].key = key] ELSE NoEntry
mapDelete(m, key) == SelectSeq(m, LAMBDA e : e.key # key)
\* Map.set keeps the place of a key that is present and appends a new key
mapSet(m, key, entry) ==
    IF mapHas(m, key)
    THEN [i \in 1..Len(m) |-> IF m[i].key = key THEN entry ELSE m[i]]
    ELSE Append(m, entry)
mapKeys(m) == [i \in 1..Len(m) |-> m[i].key]

\* slip: an entry never counts as expired
Expired_Never(entry) == FALSE

\* Date.now() > entry.expires
Expired(entry) == now > entry.expires

\* slip: the cache may hold one entry more than max
OverCapacity_OffByOne(m) == Len(m) > VinCacheMax + 1

\* this.map.size > this.max
OverCapacity(m) == Len(m) > VinCacheMax

\* slip: a read leaves the entry at its place
MoveToEnd_Stay(m, key, entry) == m

\* this.map.delete(key); this.map.set(key, entry)
MoveToEnd(m, key, entry) == mapSet(mapDelete(m, key), key, entry)

\* get(key): the value returned and the map as the call leaves it
get(key) ==
    LET entry == mapGet(vinCache, key) IN
    IF entry = NoEntry THEN [value |-> Undefined, map |-> vinCache]
    ELSE IF Expired(entry) THEN [value |-> Undefined, map |-> mapDelete(vinCache, key)]
    ELSE [value |-> entry.value, map |-> MoveToEnd(vinCache, key, entry)]

\* set(key, value): the map as the call leaves it and the key it evicted
set(key, value) ==
    LET entry == [key |-> key, value |-> value, expires |-> now + VinCacheTtl]
        m == mapSet(mapDelete(vinCache, key), key, entry)
    IN  IF OverCapacity(m)
        THEN [map |-> mapDelete(m, mapKeys(m)[1]), oldest |-> mapKeys(m)[1]]
        ELSE [map |-> m, oldest |-> Undefined]

\* has(key): this.get(key) !== undefined
has(key) == [value |-> get(key).value # Undefined, map |-> get(key).map]

\* delete(key)
delete(key) == [value |-> mapHas(vinCache, key), map |-> mapDelete(vinCache, key)]

\* clear()
clear == <<>>

\* get size()
size == Len(vinCache)

\* prune(): every expired entry is deleted
prune == SelectSeq(vinCache, LAMBDA e : ~Expired(e))

\* the order of last use: `key` becomes the most recent
Touch(order, key) == Append(SelectSeq(order, LAMBDA k : k # key), key)

CacheGet(key) ==
    /\ vinCache' = get(key).map
    /\ recency' = IF get(key).value # Undefined THEN Touch(recency, key) ELSE recency
    /\ lastGetSet' = IF get(key).value # Undefined THEN Touch(lastGetSet, key) ELSE lastGetSet
    /\ UNCHANGED <<now, setAt, oauthVars, mcpVars, rateVars, htmlVars>>

CacheSet(key, value) ==
    /\ vinCache' = set(key, value).map
    /\ recency' = Touch(recency, key)
    /\ lastGetSet' = Touch(lastGetSet, key)
    /\ setAt' = [setAt EXCEPT ![key] = now]
    /\ UNCHANGED <<now, oauthVars, mcpVars, rateVars, htmlVars>>

CacheHas(key) ==
    /\ vinCache' = has(key).map
    /\ recency' = IF has(key).value THEN Touch(recency, key) ELSE recency
    /\ UNCHANGED <<now, lastGetSet, setAt, oauthVars, mcpVars, rateVars, htmlVars>>

CacheDelete(key) ==
    /\ vinCache' = delete(key).map
    /\ UNCHANGED <<now, recency, lastGetSet, setAt, oauthVars, mcpVars, rateVars, htmlVars>>

CacheClear ==
    /\ vinCache' = clear
    /\ UNCHANGED <<now, recency, lastGetSet, setAt, oauthVars, mcpVars, rateVars, htmlVars>>

\* the clock steps to the expiry of a cached entry or to the instant after it
TickCache ==
    /\ \E i \in 1..Len(vinCache), d \in {0, 1} :
          /\ vinCache[i].expires + d > now
          /\ vinCache[i].expires + d <= MaxCacheTime
          /\ now' = vinCache[i].expires + d
    /\ UNCHANGED <<oauthVars, mcpVars, rateVars, htmlVars, cacheVars>>

InitCache ==
    /\ vinCache = <<>>
    /\ recency = <<>>
    /\ lastGetSet = <<>>
    /\ setAt = NoKeys

---------------------------------------------------------------------------
(* POST /oauth/register *)

\* Array.isArray(redirect_uris) ? redirect_uris.map(u => String(u).slice(0, 2048)) : []
RegisteredUris(r) ==
    IF r.isArray THEN [i \in 1..Len(r.items) |-> Slice(r.items[i], 2048)] ELSE <<>>

\* slip: registration reuses a client id that is already registered
NewClientId_Reused ==
    IF clients = <<>> THEN Cardinality(DOMAIN clients) + 1
    ELSE CHOOSE c \in DOMAIN clients : TRUE

\* crypto.randomUUID(): clients are never removed, so the next UUID is the next index
NewClientId == Cardinality(DOMAIN clients) + 1

\* slip: the registry is full only once it holds more than the cap
RegistryFull_OffByOne == Cardinality(DOMAIN clients) > MAX_OAUTH_CLIENTS

\* clients.size >= MAX_OAUTH_CLIENTS
RegistryFull == Cardinality(DOMAIN clients) >= MAX_OAUTH_CLIENTS

\* client_secret, client_name, grant_types, response_types and
\* token_endpoint_auth_method are stored and never read by the server
RegisterResult(redirect_uris) ==
    IF RegistryFull
    THEN [res |-> Response(503, "server_error", "Too many registered clients", None),
          clients |-> clients]
    ELSE LET client == [client_id |-> NewClientId,
                        redirect_uris |-> RegisteredUris(redirect_uris)] IN
         [res |-> Response(201, "", "", client),
          clients |-> Set(clients, client.client_id, client)]

Register(redirect_uris) ==
    /\ clients' = RegisterResult(redirect_uris).clients
    /\ UNCHANGED <<now, rands, authCodes, tokens, csrfTokens, used, mcpVars, rateVars, htmlVars, cacheVars>>

---------------------------------------------------------------------------
(* GET /oauth/authorize *)

\* slip: the request needs no code_challenge
MissingParameter_NoChallenge(client_id, redirect_uri, code_challenge) ==
    client_id = Absent \/ Falsy(redirect_uri)

\* !client_id || !redirect_uri || !code_challenge
MissingParameter(client_id, redirect_uri, code_challenge) ==
    client_id = Absent \/ Falsy(redirect_uri) \/ Falsy(code_challenge)

\* state, code_challenge_method, scope and response_type only reach the rendered form
AuthorizeResult(client_id, redirect_uri, code_challenge) ==
    IF MissingParameter(client_id, redirect_uri, code_challenge)
    THEN [res |-> Response(400, "Missing required OAuth parameters", "", None),
          csrfTokens |-> csrfTokens, nCsrf |-> nCsrf]
    ELSE IF ~Has(clients, client_id)
    THEN [res |-> Response(400, "Unknown client", "", None),
          csrfTokens |-> csrfTokens, nCsrf |-> nCsrf]
    ELSE LET csrf == nCsrf + 1 IN
         [res |-> Response(200, "", "", [csrf |-> csrf]),
          csrfTokens |-> Set(csrfTokens, csrf, [expires |-> now + CSRF_TTL]),
          nCsrf |-> csrf]

Authorize(client_id, redirect_uri, code_challenge) ==
    LET r == AuthorizeResult(client_id, redirect_uri, code_challenge) IN
    /\ r.nCsrf <= MaxCsrf
    /\ csrfTokens' = r.csrfTokens
    /\ nCsrf' = r.nCsrf
    /\ UNCHANGED <<now, nCodes, nTokens, clients, authCodes, tokens, used, mcpVars, rateVars, htmlVars, cacheVars>>

---------------------------------------------------------------------------
(* The consent page.  Text is a sequence of characters here, so that escaping *)
(* and the reading of the page by a browser are computed character by         *)
(* character.                                                                 *)

\* slip: the double quote is left as it is
escHtml_NoQuote(str) ==
    Replace(Replace(Replace(Replace(str, "&", Chars("&amp;")),
        "<", Chars("&lt;")), ">", Chars("&gt;")), "'", Chars("&#39;"))

\* String(str).replace(/&/g, '&amp;').replace(/"/g, '&quot;').replace(/</g, '&lt;')
\*            .replace(/>/g, '&gt;').replace(/'/g, '&#39;')
escHtml(str) ==
    Replace(Replace(Replace(Replace(Replace(str, "&", Chars("&amp;")),
        "\"", Chars("&quot;")), "<", Chars("&lt;")), ">", Chars("&gt;")),
        "'", Chars("&#39;"))

\* the hidden inputs of the form, in the order of the template; the markup of an
\* input is shortened to <NAME="VALUE"> with a one-letter name
FieldNames == <<"c", "i", "r", "s", "h", "m", "p">>
InputOpen(name) == <<"<", name, "=", "\"">>
InputClose == <<"\"", ">">>

\* x || dflt, for text
OrDefault(x, dflt) == IF x = <<>> THEN dflt ELSE x

\* the values the template interpolates, in the order of FieldNames
FormValues(csrf, q) ==
    <<csrf, q.client_id, q.redirect_uri, OrDefault(q.state, <<>>), q.code_challenge,
      OrDefault(q.code_challenge_method, Chars("S256")),
      OrDefault(q.scope, Chars("mcp:tools"))>>

RECURSIVE Inputs(_, _, _)
\* <input type="hidden" name="..." value="${escHtml(...)}">, for the fields from i on
Inputs(names, values, i) ==
    IF i > Len(names) THEN <<>>
    ELSE InputOpen(names[i]) \o escHtml(values[i]) \o InputClose
         \o Inputs(names, values, i + 1)

\* the form of the consent page
ConsentForm(csrf, q) == Inputs(FieldNames, FormValues(csrf, q), 1)

\* a CSRF token: hex digits
CsrfText == Chars("c0fe")
\* the client_id of the registered client: a UUID
ClientText == Chars("9b1d-4e")

\* the body GET /oauth/authorize sends for the query q
AuthorizeBody(q) ==
    IF q.client_id = <<>> \/ q.redirect_uri = <<>> \/ q.code_challenge = <<>>
    THEN Chars("Missing required OAuth parameters")
    ELSE IF q.client_id # ClientText THEN Chars("Unknown client")
    ELSE ConsentForm(CsrfText, q)

\* the handler answers the request it was given
AuthorizeRendered ==
    /\ page' = AuthorizeBody(query)
    /\ UNCHANGED <<now, oauthVars, mcpVars, rateVars, query, cacheVars>>

---------------------------------------------------------------------------
(* POST /oauth/approve *)

\* slip: the approval does not look at the CSRF token
CsrfRejected_Never(csrf) == FALSE

\* !csrf || !csrfTokens.has(csrf)
CsrfRejected(csrf) == csrf = Absent \/ ~Has(csrfTokens, csrf)

\* slip: the CSRF token is left in the store
CsrfAfterCheck_Kept(csrf) == csrfTokens

\* csrfTokens.delete(csrf), before the client and redirect_uri checks
CsrfAfterCheck(csrf) == Delete(csrfTokens, csrf)

\* slip: the submitted redirect_uri is not compared with the registered ones
RedirectUriRejected_Never(client, redirect_uri) == FALSE

\* client.redirect_uris.length > 0 && !client.redirect_uris.includes(redirect_uri)
RedirectUriRejected(client, redirect_uri) ==
    Len(client.redirect_uris) > 0 /\ ~Includes(client.redirect_uris, redirect_uri)

\* state is only echoed into the redirect; code_challenge_method and scope are
\* stored with their defaults and read by nothing that decides a response
ApproveResult(csrf, client_id, redirect_uri, code_challenge) ==
    IF CsrfRejected(csrf)
    THEN [res |-> Response(403, "Invalid or expired CSRF token", "", None),
          csrfTokens |-> csrfTokens, authCodes |-> authCodes, nCodes |-> nCodes]
    ELSE IF ~Has(clients, client_id)
    THEN [res |-> Response(400, "Unknown client", "", None),
          csrfTokens |-> CsrfAfterCheck(csrf), authCodes |-> authCodes, nCodes |-> nCodes]
    ELSE IF RedirectUriRejected(clients[client_id], redirect_uri)
    THEN [res |-> Response(400, "Invalid redirect URI for this client", "", None),
          csrfTokens |-> CsrfAfterCheck(csrf), authCodes |-> authCodes, nCodes |-> nCodes]
    ELSE LET code == nCodes + 1 IN
         \* new URL(redirect_uri) throws after the code is stored: Express answers 500
         [res |-> IF IsUrl(redirect_uri)
                  THEN Response(302, "", "", [location |-> redirect_uri, code |-> code])
                  ELSE Response(500, "TypeError: Invalid URL", "", None),
          csrfTokens |-> CsrfAfterCheck(csrf),
          authCodes |-> Set(authCodes, code,
              [client_id |-> client_id, redirect_uri |-> redirect_uri,
               code_challenge |-> code_challenge, code_challenge_method |-> "S256",
               scope |-> "mcp:tools", expires |-> now + CODE_TTL]),
          nCodes |-> code]

Approve(csrf, client_id, redirect_uri, code_challenge) ==
    LET r == ApproveResult(csrf, client_id, redirect_uri, code_challenge) IN
    /\ r.nCodes <= MaxCodes
    /\ csrfTokens' = r.csrfTokens
    /\ authCodes' = r.authCodes
    /\ nCodes' = r.nCodes
    /\ used' = IF r.res.status = 403 THEN used ELSE used \cup {<<"csrf", csrf>>}
    /\ UNCHANGED <<now, nCsrf, nTokens, clients, tokens, mcpVars, rateVars, htmlVars, cacheVars>>

---------------------------------------------------------------------------
(* POST /oauth/token *)

\* slip: only the redirect_uri is compared
CodeBoundTo_UriOnly(authCode, client_id, redirect_uri) ==
    authCode.redirect_uri = redirect_uri

\* authCode.client_id !== client_id, authCode.redirect_uri !== redirect_uri
CodeBoundTo(authCode, client_id, redirect_uri) ==
    authCode.client_id = client_id /\ authCode.redirect_uri = redirect_uri

\* slip: the verifier is checked only when the request carries one
PkceError_Optional(authCode, code_verifier) ==
    IF Falsy(code_verifier) THEN ""
    ELSE IF S256(code_verifier) # authCode.code_challenge THEN "PKCE verification failed"
    ELSE ""

\* Mandatory PKCE verification: the error_description of the failure, "" when it passes
PkceError(authCode, code_verifier) ==
    IF Falsy(authCode.code_challenge) THEN ""
    ELSE IF Falsy(code_verifier) THEN "code_verifier required"
    ELSE IF S256(code_verifier) # authCode.code_challenge THEN "PKCE verification failed"
    ELSE ""

\* slip: the code stays in the store after the exchange
CodesAfterExchange_Kept(code) == authCodes

\* authCodes.delete(code) on a successful exchange
CodesAfterExchange(code) == Delete(authCodes, code)

\* slip: the records are stored without the client they were issued to
IssuePair_NoClient(store, access_token, rt, client_id) ==
    Set(Set(store, access_token,
            [type |-> "access", client_id |-> Absent, expires |-> now + ACCESS_TTL]),
        rt, [type |-> "refresh", client_id |-> Absent, expires |-> now + REFRESH_TTL])

\* slip: both records are stored with the lifetime and the type of an access token
IssuePair_BothAccess(store, access_token, rt, client_id) ==
    Set(Set(store, access_token,
            [type |-> "access", client_id |-> client_id, expires |-> now + ACCESS_TTL]),
        rt, [type |-> "access", client_id |-> client_id, expires |-> now + ACCESS_TTL])

\* tokens.set(access_token, ...); tokens.set(rt, ...)
IssuePair(store, access_token, rt, client_id) ==
    Set(Set(store, access_token,
            [type |-> "access", client_id |-> client_id, expires |-> now + ACCESS_TTL]),
        rt, [type |-> "refresh", client_id |-> client_id, expires |-> now + REFRESH_TTL])

\* slip: any stored, unexpired token is taken for a refresh token
RefreshRejected_AnyType(refresh_token) ==
    ~Has(tokens, refresh_token) \/ now > tokens[refresh_token].expires

\* !rt || rt.type !== 'refresh' || Date.now() > rt.expires
RefreshRejected(refresh_token) ==
    \/ ~Has(tokens, refresh_token)
    \/ tokens[refresh_token].type # "refresh"
    \/ now > tokens[refresh_token].expires

\* slip: the presented refresh token is not deleted
TokensAfterRotation_Kept(refresh_token) == tokens

\* tokens.delete(refresh_token): the presented refresh token is rotated out
TokensAfterRotation(refresh_token) == Delete(tokens, refresh_token)

InvalidGrant(desc) ==
    [res |-> Response(400, "invalid_grant", desc, None),
     authCodes |-> authCodes, tokens |-> tokens, nTokens |-> nTokens]

\* res.json({ access_token, token_type: 'Bearer', expires_in: 3600, refresh_token, scope })
Granted(access_token, rt) ==
    Response(200, "", "", [access_token |-> access_token, refresh_token |-> rt])

\* slip: a code is spent by the first request that presents it, granted or not
CodesAfterMismatch_Spent(code) == Delete(authCodes, code)

\* a client_id, redirect_uri or PKCE mismatch returns without authCodes.delete(code)
CodesAfterMismatch(code) == authCodes

\* grant_type === 'authorization_code'
AuthorizationCodeGrant(code, redirect_uri, client_id, code_verifier) ==
    IF ~Has(authCodes, code) THEN InvalidGrant("")
    ELSE LET authCode == authCodes[code] IN
      IF now > authCode.expires
      THEN [InvalidGrant("") EXCEPT !.authCodes = Delete(authCodes, code)]
      ELSE IF ~CodeBoundTo(authCode, client_id, redirect_uri)
      THEN [InvalidGrant("") EXCEPT !.authCodes = CodesAfterMismatch(code)]
      ELSE IF PkceError(authCode, code_verifier) # ""
      THEN [InvalidGrant(PkceError(authCode, code_verifier))
               EXCEPT !.authCodes = CodesAfterMismatch(code)]
      ELSE LET access_token == nTokens + 1
               rt == nTokens + 2 IN
           [res |-> Granted(access_token, rt),
            authCodes |-> CodesAfterExchange(code),
            tokens |-> IssuePair(tokens, access_token, rt, authCode.client_id),
            nTokens |-> rt]

\* grant_type === 'refresh_token'
RefreshTokenGrant(refresh_token) ==
    IF RefreshRejected(refresh_token) THEN InvalidGrant("")
    ELSE LET rt == tokens[refresh_token]
             access_token == nTokens + 1
             newRt == nTokens + 2 IN
         [res |-> Granted(access_token, newRt),
          authCodes |-> authCodes,
          tokens |-> IssuePair(TokensAfterRotation(refresh_token), access_token, newRt,
                               rt.client_id),
          nTokens |-> newRt]

GrantTypes == {"authorization_code", "refresh_token", "password"}

\* the handler of POST /oauth/token
TokenResult(grant_type, code, redirect_uri, client_id, code_verifier, refresh_token) ==
    IF grant_type = "authorization_code"
    THEN AuthorizationCodeGrant(code, redirect_uri, client_id, code_verifier)
    ELSE IF grant_type = "refresh_token"
    THEN RefreshTokenGrant(refresh_token)
    ELSE [InvalidGrant("") EXCEPT !.res = Response(400, "unsupported_grant_type", "", None)]

Token(grant_type, code, redirect_uri, client_id, code_verifier, refresh_token) ==
    LET r == TokenResult(grant_type, code, redirect_uri, client_id, code_verifier,
                         refresh_token) IN
    /\ r.nTokens <= MaxTokens
    /\ authCodes' = r.authCodes
    /\ tokens' = r.tokens
    /\ nTokens' = r.nTokens
    /\ used' = IF r.res.status # 200 THEN used
               ELSE IF grant_type = "authorization_code" THEN used \cup {<<"code", code>>}
               ELSE used \cup {<<"refresh", refresh_token>>}
    /\ UNCHANGED <<now, nCsrf, nCodes, clients, csrfTokens, mcpVars, rateVars, htmlVars, cacheVars>>

---------------------------------------------------------------------------
(* /mcp: bearer check *)

\* slip: any stored, unexpired token verifies, whatever its type
verifyOAuthToken_AnyType(auth) ==
    auth # Absent /\ Has(tokens, auth) /\ now < tokens[auth].expires

\* auth is the token of an Authorization: Bearer header, Absent without one
verifyOAuthToken(auth) ==
    /\ auth # Absent
    /\ Has(tokens, auth)
    /\ tokens[auth].type = "access"
    /\ now < tokens[auth].expires

\* mcpAuth answers 401 when a Bearer token is presented and does not verify
McpAuthRejected(auth) == auth # Absent /\ ~verifyOAuthToken(auth)

---------------------------------------------------------------------------
(* /mcp: the session broker.  The handlers are async: each runs to its next *)
(* await, and other handlers run before it resumes.                         *)

\* the JSON-RPC body of a POST: an initialize request or any other request
Kinds == {"initialize", "call"}

FreeSlots == {i \in 1..MaxInflight : inflight[i] = NoRequest}
Suspend(rec) ==
    IF FreeSlots = {} THEN inflight
    ELSE [inflight EXCEPT ![CHOOSE i \in FreeSlots : \A j \in FreeSlots : i <= j] = rec]

\* a session object nothing refers to any more is garbage
Reachable(map, infl) ==
    {map[k] : k \in DOMAIN map} \cup {infl[i].tid : i \in 1..MaxInflight}
Collect(heap, map, infl) ==
    [t \in DOMAIN heap \cap Reachable(map, infl) |-> heap[t]]

\* slip: the session id of the request is not looked up
SessionKnown_Never(sessionId) == FALSE

\* slip: the capacity check comes first, so a full table knows no session
SessionKnown_WhileRoom(sessionId) ==
    /\ sessionId # Absent /\ Has(mcpSessions, sessionId)
    /\ Cardinality(DOMAIN mcpSessions) < MAX_MCP_SESSIONS

\* sessionId && mcpSessions.has(sessionId)
SessionKnown(sessionId) == sessionId # Absent /\ Has(mcpSessions, sessionId)

\* mcpSessions.size >= MAX_MCP_SESSIONS
AtCapacity == Cardinality(DOMAIN mcpSessions) >= MAX_MCP_SESSIONS

McpResult(status, map, heap, infl, nT) ==
    [status |-> status, mcpSessions |-> map, sessions |-> heap, inflight |-> infl,
     nTransports |-> nT]
\* the handler answered `status` and changed nothing
McpAnswered(status) == McpResult(status, mcpSessions, sessions, inflight, nTransports)
\* status of a handler that is suspended and has not answered yet
Pending == 0

\* slip: the transport built last serves the next new session too
NewTransport_Shared == IF nTransports = 0 THEN nTransports + 1 ELSE nTransports

\* new StreamableHTTPServerTransport(...): an object of its own for every request
NewTransport == nTransports + 1

\* POST /mcp up to its first await
PostStartResult(auth, sessionId, kind) ==
    IF McpAuthRejected(auth) THEN McpAnswered(401)
    ELSE IF SessionKnown(sessionId)
    THEN LET tid == mcpSessions[sessionId] IN
         \* session.expires_at = Date.now() + SESSION_TTL; await session.transport.handleRequest
         McpResult(Pending, mcpSessions,
                   [sessions EXCEPT ![tid].expires_at = now + SESSION_TTL],
                   Suspend([method |-> "POST", pc |-> "handle", sid |-> sessionId,
                            tid |-> tid, kind |-> kind]),
                   nTransports)
    ELSE IF AtCapacity THEN McpAnswered(503)
    ELSE \* new StreamableHTTPServerTransport(...); await mcpInstance.connect(transport)
         McpResult(Pending, mcpSessions, sessions,
                   Suspend([method |-> "POST", pc |-> "connect", sid |-> sessionId,
                            tid |-> NewTransport, kind |-> kind]),
                   NewTransport)

ApplyMcp(r) ==
    /\ r.status = Pending => FreeSlots # {}
    /\ r.nTransports <= MaxTransports
    /\ mcpSessions' = r.mcpSessions
    /\ inflight' = r.inflight
    /\ sessions' = Collect(r.sessions, r.mcpSessions, r.inflight)
    /\ nTransports' = r.nTransports
    /\ UNCHANGED <<now, oauthVars, nSids, rateVars, htmlVars, cacheVars>>

PostStart(auth, sessionId, kind) == ApplyMcp(PostStartResult(auth, sessionId, kind))

\* POST /mcp resumes after connect(): transport.onclose is set and the session
\* object is built; the handler then awaits session.transport.handleRequest
PostConnected(i) ==
    /\ inflight[i].pc = "connect"
    /\ inflight' = [inflight EXCEPT ![i].pc = "handle"]
    /\ sessions' = Set(sessions, inflight[i].tid,
                       [expires_at |-> now + SESSION_TTL, sessionId |-> Absent])
    /\ UNCHANGED <<now, oauthVars, mcpSessions, nTransports, nSids, rateVars, htmlVars, cacheVars>>

\* transport.handleRequest of the SDK, for a POST: an initialize request makes a
\* transport that has no session id generate one; any other request is served only
\* by a transport that has one.  The value is the mcp-session-id response header.
HeaderAfterPost(session, kind) ==
    IF kind = "initialize"
    THEN IF session.sessionId = Absent THEN nSids + 1 ELSE Absent
    ELSE session.sessionId

\* POST /mcp resumes after handleRequest:
\* const newSid = res.getHeader('mcp-session-id');
\* if (newSid && !mcpSessions.has(newSid)) mcpSessions.set(newSid, session)
PostHandled(i) ==
    LET tid == inflight[i].tid
        newSid == HeaderAfterPost(sessions[tid], inflight[i].kind)
        generated == newSid # Absent /\ sessions[tid].sessionId = Absent
        heap == IF generated THEN [sessions EXCEPT ![tid].sessionId = newSid] ELSE sessions
        map == IF newSid # Absent /\ ~Has(mcpSessions, newSid)
               THEN Set(mcpSessions, newSid, tid) ELSE mcpSessions
        infl == [inflight EXCEPT ![i] = NoRequest]
    IN  /\ inflight[i].method = "POST"
        /\ inflight[i].pc = "handle"
        /\ nSids' = IF generated THEN newSid ELSE nSids
        /\ mcpSessions' = map
        /\ inflight' = infl
        /\ sessions' = Collect(heap, map, infl)
        /\ UNCHANGED <<now, oauthVars, nTransports, rateVars, htmlVars, cacheVars>>

\* GET /mcp up to its await
GetStartResult(auth, sessionId) ==
    IF McpAuthRejected(auth) THEN McpAnswered(401)
    ELSE IF SessionKnown(sessionId)
    THEN McpResult(Pending, mcpSessions, sessions,
                   Suspend([method |-> "GET", pc |-> "handle", sid |-> sessionId,
                            tid |-> mcpSessions[sessionId], kind |-> "none"]),
                   nTransports)
    ELSE McpAnswered(400)

GetStart(auth, sessionId) == ApplyMcp(GetStartResult(auth, sessionId))

\* GET /mcp resumes after handleRequest and has nothing left to do
GetHandled(i) ==
    LET infl == [inflight EXCEPT ![i] = NoRequest] IN
    /\ inflight[i].method = "GET"
    /\ inflight[i].pc = "handle"
    /\ inflight' = infl
    /\ sessions' = Collect(sessions, mcpSessions, infl)
    /\ UNCHANGED <<now, oauthVars, mcpSessions, nTransports, nSids, rateVars, htmlVars, cacheVars>>

\* DELETE /mcp up to its await
DeleteStartResult(auth, sessionId) ==
    IF McpAuthRejected(auth) THEN McpAnswered(401)
    ELSE IF SessionKnown(sessionId)
    THEN McpResult(Pending, mcpSessions, sessions,
                   Suspend([method |-> "DELETE", pc |-> "handle", sid |-> sessionId,
                            tid |-> mcpSessions[sessionId], kind |-> "none"]),
                   nTransports)
    ELSE McpAnswered(404)

DeleteStart(auth, sessionId) == ApplyMcp(DeleteStartResult(auth, sessionId))

\* slip: the entry found is the first one, whatever transport its session holds
AfterClose_First(map, tid) ==
    IF DOMAIN map = {} THEN map
    ELSE Delete(map, CHOOSE k \in DOMAIN map : \A x \in DOMAIN map : k <= x)

\* transport.onclose: the entry whose session holds this transport is deleted
AfterClose(map, tid) == [k \in {x \in DOMAIN map : map[x] # tid} |-> map[k]]

\* the transport of a session emits its close signal on its own and runs
\* transport.onclose, which the POST handler set when it built the session object
OnClose(tid) ==
    LET map == AfterClose(mcpSessions, tid) IN
    /\ tid \in DOMAIN sessions
    /\ mcpSessions' = map
    /\ sessions' = Collect(sessions, map, inflight)
    /\ UNCHANGED <<now, oauthVars, inflight, nTransports, nSids, rateVars, htmlVars, cacheVars>>

\* DELETE /mcp resumes: handleRequest closed the transport, which ran onclose;
\* then mcpSessions.delete(sessionId)
DeleteHandled(i) ==
    LET map == Delete(AfterClose(mcpSessions, inflight[i].tid), inflight[i].sid)
        infl == [inflight EXCEPT ![i] = NoRequest]
    IN  /\ inflight[i].method = "DELETE"
        /\ inflight[i].pc = "handle"
        /\ mcpSessions' = map
        /\ inflight' = infl
        /\ sessions' = Collect(sessions, map, infl)
        /\ UNCHANGED <<now, oauthVars, nTransports, nSids, rateVars, htmlVars, cacheVars>>

\* setInterval(..., 60000): sessions whose expires_at has passed are deleted and
\* the report cache is pruned
SweepSessions ==
    LET map == [k \in {x \in DOMAIN mcpSessions : ~(now > sessions[mcpSessions[x]].expires_at)}
                   |-> mcpSessions[k]]
    IN  /\ mcpSessions' = map
        /\ sessions' = Collect(sessions, map, inflight)
        /\ vinCache' = prune
        /\ UNCHANGED <<now, oauthVars, inflight, nTransports, nSids, rateVars, htmlVars,
                       recency, lastGetSet, setAt>>

---------------------------------------------------------------------------
(* The clock and the sweeper *)

\* slip: the sweeper keeps every entry
Live_All(map) == DOMAIN map

\* an entry is reclaimed once now > expires
Live(map) == {k \in DOMAIN map : ~(now > map[k].expires)}
Sweep(map) == [k \in Live(map) |-> map[k]]

\* setInterval(..., 300000): expired codes, tokens and CSRF tokens are deleted
SweepOAuth ==
    /\ authCodes' = Sweep(authCodes)
    /\ tokens' = Sweep(tokens)
    /\ csrfTokens' = Sweep(csrfTokens)
    /\ UNCHANGED <<now, rands, clients, used, mcpVars, rateVars, htmlVars, cacheVars>>

\* the expiry times the stores hold
Expiries ==
    {authCodes[k].expires : k \in DOMAIN authCodes}
    \cup {tokens[k].expires : k \in DOMAIN tokens}
    \cup {csrfTokens[k].expires : k \in DOMAIN csrfTokens}
    \cup {sessions[t].expires_at : t \in DOMAIN sessions}

\* Time is read only to be compared with a stored expiry time, so the clock
\* steps to a stored expiry time or to the instant after it.
TickUpTo(limit) ==
    /\ \E e \in Expiries, d \in {0, 1} :
          /\ e + d > now
          /\ e + d <= limit
          /\ now' = e + d
    /\ UNCHANGED <<oauthVars, mcpVars, rateVars, htmlVars, cacheVars>>

Tick == TickUpTo(MaxTime)

---------------------------------------------------------------------------

InitStores ==
    /\ now = 0
    /\ nCsrf = 0
    /\ nCodes = 0
    /\ nTokens = 0
    /\ clients = <<>>
    /\ authCodes = <<>>
    /\ tokens = <<>>
    /\ csrfTokens = <<>>
    /\ used = {}
    /\ mcpSessions = <<>>
    /\ sessions = <<>>
    /\ inflight = [i \in 1..MaxInflight |-> NoRequest]
    /\ nTransports = 0
    /\ nSids = 0
    /\ apiLimits = <<>>
    /\ admitted = NoneAdmitted
    /\ InitCache

Init ==
    /\ InitStores
    /\ query = NoQuery
    /\ page = <<>>

\* The requests the environment sends.  A field the handler does not read on the
\* path a request takes is left absent: a request that fails the CSRF check, or that
\* names a code the store does not hold, is rejected before anything else is read.
ApproveRequests ==
    {q \in Presentable(csrfTokens, "csrf") \X ClientIdsSeen \X Uris \X Challenges :
        CsrfRejected(q[1]) => (q[2] = Bogus /\ q[3] = Undefined /\ q[4] = Undefined)}

CodeRequests ==
    {q \in Presentable(authCodes, "code") \X Uris \X ClientIdsSeen \X Verifiers :
        ~Has(authCodes, q[1]) => (q[2] = Undefined /\ q[3] = Bogus /\ q[4] = Undefined)}

Next ==
    \/ \E ep \in GuardedEndpoints : RateLimited(ep)
    \/ \E r \in RegistrationUris : Register(r)
    \/ \E c \in ClientIdsSeen \cup {Absent}, u \in Uris, ch \in Challenges :
          Authorize(c, u, ch)
    \/ \E q \in ApproveRequests : Approve(q[1], q[2], q[3], q[4])
    \/ \E q \in CodeRequests : Token("authorization_code", q[1], q[2], q[3], q[4], Absent)
    \/ \E rt \in Presentable(tokens, "refresh") :
          Token("refresh_token", Absent, Undefined, Absent, Undefined, rt)
    \/ Token("password", Absent, Undefined, Absent, Undefined, Absent)
    \/ SweepOAuth
    \/ Tick

Spec == Init /\ [][Next]_vars

\* The broker, started after one client has run the OAuth flow to the end at time 0:
\* it holds an access and a refresh token.
InitMcp ==
    /\ now = 0
    /\ nCsrf = 1
    /\ nCodes = 1
    /\ nTokens = 2
    /\ clients = (1 :> [client_id |-> 1, redirect_uris |-> <<UriA>>])
    /\ authCodes = <<>>
    /\ tokens = IssuePair(<<>>, 1, 2, 1)
    /\ csrfTokens = <<>>
    /\ used = {<<"csrf", 1>>, <<"code", 1>>}
    /\ mcpSessions = <<>>
    /\ sessions = <<>>
    /\ inflight = [i \in 1..MaxInflight |-> NoRequest]
    /\ nTransports = 0
    /\ nSids = 0
    /\ apiLimits = <<>>
    /\ admitted = NoneAdmitted
    /\ query = NoQuery
    /\ page = <<>>
    /\ InitCache

\* the Authorization headers and mcp-session-id headers a /mcp request carries
Bearers == DOMAIN tokens \cup {Bogus, Absent}
SessionIds == (1..nSids) \cup {Bogus, Absent}

NextMcp ==
    \/ \E ep \in GuardedEndpoints : RateLimited(ep)
    \/ \E a \in Bearers, sid \in SessionIds, k \in Kinds : PostStart(a, sid, k)
    \/ \E i \in 1..MaxInflight : PostConnected(i)
    \/ \E i \in 1..MaxInflight : PostHandled(i)
    \/ \E a \in Bearers, sid \in SessionIds : GetStart(a, sid)
    \/ \E i \in 1..MaxInflight : GetHandled(i)
    \/ \E a \in Bearers, sid \in SessionIds : DeleteStart(a, sid)
    \/ \E i \in 1..MaxInflight : DeleteHandled(i)
    \/ \E tid \in 1..MaxTransports : OnClose(tid)
    \/ SweepSessions
    \/ SweepOAuth
    \/ TickUpTo(MaxSessionTime)

SpecMcp == InitMcp /\ [][NextMcp]_vars

\* The rate limiter alone: requests to the REST API from a few addresses.
NextRate ==
    \/ \E ip \in Ips, route \in Routes : Request(ip, route)
    \/ SweepLimits
    \/ TickRate

SpecRate == Init /\ [][NextRate]_vars

\* The consent page alone: authorize requests with hostile text in their parameters.
Queries ==
    [client_id : {NoText, <<"a">>, ClientText},
     redirect_uri : Texts \cup {NoText}, state : Texts \cup {NoText},
     code_challenge : Texts \cup {NoText},
     code_challenge_method : {NoText, <<"\"", ">", "<", "b", ">">>},
     scope : {NoText, <<"'", "&">>}]

InitHtml ==
    /\ InitStores
    /\ query \in Queries
    /\ page = <<>>

NextHtml == AuthorizeRendered

SpecHtml == InitHtml /\ [][NextHtml]_vars

---------------------------------------------------------------------------
(* Properties of the OAuth endpoints *)

Codes == 1..MaxCodes
CsrfValues == 1..MaxCsrf
TokenValues == 1..MaxTokens
Redeemed(kind, v) == <<kind, v>> \in used

\* the answer of the token endpoint to an authorization_code request
CodeAnswer(code, redirect_uri, client_id, code_verifier) ==
    TokenResult("authorization_code", code, redirect_uri, client_id, code_verifier, Absent)
\* the answer of the token endpoint to a refresh_token request
RefreshAnswer(refresh_token) ==
    TokenResult("refresh_token", Absent, Undefined, Absent, Undefined, refresh_token)

\* the request is refused with invalid_grant and leaves the token store as it was
RefusedGrant(r) ==
    /\ r.res.status = 400
    /\ r.res.error = "invalid_grant"
    /\ r.tokens = tokens
    /\ r.nTokens = nTokens

\* C1: a code that was exchanged for tokens is gone from the code store, and every
\* authorization_code request that presents it again, whatever else it carries, is
\* answered invalid_grant and issues no token.
C1_CodeRedeemedAtMostOnce ==
    \A code \in Codes :
        Redeemed("code", code) =>
            /\ ~Has(authCodes, code)
            /\ \A u \in Uris, c \in ClientIdsSeen, v \in Verifiers :
                  RefusedGrant(CodeAnswer(code, u, c, v))

\* a code has been exchanged for a token pair
C1_Witness ==
    \E code \in Codes :
        /\ Redeemed("code", code)
        /\ nTokens >= 2
        /\ CodeAnswer(code, UriA, 1, "abc").res.error = "invalid_grant"

\* C2: for a stored code that carries a code_challenge, the exchange succeeds only
\* with a code_verifier whose S256 hash equals the challenge; without a verifier,
\* or with any other one, the answer is invalid_grant and no token is issued.
C2_PkceMandatory ==
    \A code \in DOMAIN authCodes :
        ~Falsy(authCodes[code].code_challenge) =>
            \A u \in Uris, c \in ClientIdsSeen, v \in Verifiers :
                LET r == CodeAnswer(code, u, c, v)
                    matches == ~Falsy(v) /\ S256(v) = authCodes[code].code_challenge
                IN  /\ r.res.status = 200 => matches
                    /\ ~matches => RefusedGrant(r)

\* a live code with a challenge: the right verifier is granted, the challenge itself
\* and a missing verifier are refused
C2_Witness ==
    \E code \in DOMAIN authCodes :
        LET a == authCodes[code] IN
        /\ a.code_challenge = S256("abc")
        /\ CodeAnswer(code, a.redirect_uri, a.client_id, "abc").res.status = 200
        /\ CodeAnswer(code, a.redirect_uri, a.client_id, S256("abc")).res.desc
              = "PKCE verification failed"
        /\ CodeAnswer(code, a.redirect_uri, a.client_id, Undefined).res.desc
              = "code_verifier required"

\* C3: a refresh_token request that succeeds deletes the presented token R1 and
\* adds one access and one refresh token, both new and bound to R1's client_id,
\* leaving every other token as it was; a refresh token that was exchanged is gone
\* and is answered invalid_grant from then on; a stored, unexpired refresh token
\* (the R2 of a rotation included) is exchanged successfully when presented.
C3_RefreshRotation ==
    /\ \A r1 \in DOMAIN tokens :
          LET g == RefreshAnswer(r1) IN
          g.res.status = 200 =>
              LET a  == g.res.out.access_token
                  r2 == g.res.out.refresh_token
              IN  /\ ~Has(g.tokens, r1)
                  /\ a # r2 /\ ~Has(tokens, a) /\ ~Has(tokens, r2)
                  /\ ~Redeemed("refresh", a) /\ ~Redeemed("refresh", r2)
                  /\ DOMAIN g.tokens = (DOMAIN tokens \ {r1}) \cup {a, r2}
                  /\ g.tokens[a] = [type |-> "access", client_id |-> tokens[r1].client_id,
                                    expires |-> now + ACCESS_TTL]
                  /\ g.tokens[r2] = [type |-> "refresh", client_id |-> tokens[r1].client_id,
                                     expires |-> now + REFRESH_TTL]
                  /\ \A k \in DOMAIN tokens \ {r1} : g.tokens[k] = tokens[k]
    /\ \A r1 \in TokenValues :
          Redeemed("refresh", r1) => ~Has(tokens, r1) /\ RefusedGrant(RefreshAnswer(r1))
    /\ \A r2 \in DOMAIN tokens :
          (tokens[r2].type = "refresh" /\ ~(now > tokens[r2].expires))
              => RefreshAnswer(r2).res.status = 200

\* R1 was rotated into R2 and R2 into R3: R1 and R2 are refused, R3 is live
C3_Witness ==
    \E r1, r2, r3 \in TokenValues :
        /\ r1 < r2 /\ r2 < r3
        /\ Redeemed("refresh", r1) /\ Redeemed("refresh", r2)
        /\ Has(tokens, r3) /\ tokens[r3].type = "refresh"
        /\ RefreshAnswer(r1).res.error = "invalid_grant"
        /\ RefreshAnswer(r2).res.error = "invalid_grant"

\* the approval requests a client can send in the current state
ApproveInputs == Presentable(csrfTokens, "csrf") \X ClientIdsSeen \X Uris \X Challenges
ApproveAnswer(q) == ApproveResult(q[1], q[2], q[3], q[4])

\* C4: an approval that presents a stored CSRF token removes it from the store
\* whatever the outcome of the client and redirect_uri checks, and a CSRF token an
\* approval has accepted is answered 403 from then on and mints no code.
C4_CsrfSingleUse ==
    /\ \A q \in ApproveInputs :
          Has(csrfTokens, q[1]) => ~Has(ApproveAnswer(q).csrfTokens, q[1])
    /\ \A q \in ApproveInputs :
          Redeemed("csrf", q[1]) =>
              /\ ~Has(csrfTokens, q[1])
              /\ ApproveAnswer(q).res.status = 403
              /\ ApproveAnswer(q).authCodes = authCodes
              /\ ApproveAnswer(q).nCodes = nCodes

\* a CSRF token was consumed by an approval that minted no code (the client or
\* redirect_uri check failed), and a valid approval presenting it again gets 403
C4_Witness ==
    \E t \in CsrfValues :
        /\ Redeemed("csrf", t)
        /\ nCodes = 0
        /\ Has(clients, 1)
        /\ ~RedirectUriRejected(clients[1], UriA)
        /\ ApproveResult(t, 1, UriA, S256("abc")).res.status = 403

\* C5: a stored code is exchanged only by a request whose client_id and
\* redirect_uri equal the ones recorded with the code; a request with another
\* client_id or redirect_uri is answered invalid_grant and issues no token.
C5_CodeBoundToClientAndUri ==
    \A code \in DOMAIN authCodes :
        \A u \in Uris, c \in ClientIdsSeen, v \in Verifiers :
            LET r == CodeAnswer(code, u, c, v)
                bound == c = authCodes[code].client_id /\ u = authCodes[code].redirect_uri
            IN  /\ r.res.status = 200 => bound
                /\ ~bound => RefusedGrant(r)

\* a live code of client 1: its owner is granted, the other registered client and
\* the other redirect_uri are refused
C5_Witness ==
    \E code \in DOMAIN authCodes :
        LET a == authCodes[code] IN
        /\ a.client_id = 1 /\ Has(clients, 2) /\ a.redirect_uri = UriA
        /\ CodeAnswer(code, UriA, 1, "abc").res.status = 200
        /\ CodeAnswer(code, UriA, 2, "abc").res.error = "invalid_grant"
        /\ CodeAnswer(code, UriB, 1, "abc").res.error = "invalid_grant"

\* C8, as claimed: an approval presenting a CSRF token whose expiry has passed is
\* answered 403 and mints no code, also while the sweeper has not removed it.
C8_ExpiredCsrfRejected ==
    \A q \in ApproveInputs :
        (Has(csrfTokens, q[1]) /\ now > csrfTokens[q[1]].expires) =>
            /\ ApproveAnswer(q).res.status = 403
            /\ ApproveAnswer(q).authCodes = authCodes

\* C10, as claimed: every 302 of an approval targets a redirect_uri that the client
\* named in the request registered.
C10_RedirectRegistered ==
    \A q \in ApproveInputs :
        ApproveAnswer(q).res.status = 302 =>
            /\ Has(clients, q[2])
            /\ Includes(clients[q[2]].redirect_uris, ApproveAnswer(q).res.out.location)

\* C10, amended: every 302 of an approval targets the submitted redirect_uri, which
\* is one the named client registered whenever that client registered any; an
\* approval that fails the CSRF, client or redirect_uri check is answered 403 or 400,
\* without a redirect and without minting a code.
C10_RedirectValidated ==
    \A q \in ApproveInputs :
        LET r == ApproveAnswer(q) IN
        /\ r.res.status = 302 =>
              /\ Has(clients, q[2])
              /\ r.res.out.location = q[3]
              /\ Len(clients[q[2]].redirect_uris) > 0
                    => Includes(clients[q[2]].redirect_uris, q[3])
        /\ (\/ CsrfRejected(q[1])
            \/ ~Has(clients, q[2])
            \/ (Len(clients[q[2]].redirect_uris) > 0
                  /\ ~Includes(clients[q[2]].redirect_uris, q[3])))
              => /\ r.res.status \in {400, 403}
                 /\ r.authCodes = authCodes

\* an approval minted a code for a client that registered redirect URIs, with one of
\* them, while an approval with another URI would be refused
C10_Witness ==
    \E code \in DOMAIN authCodes :
        LET a == authCodes[code] IN
        /\ Len(clients[a.client_id].redirect_uris) > 0
        /\ Includes(clients[a.client_id].redirect_uris, a.redirect_uri)
        /\ RedirectUriRejected(clients[a.client_id], UriB)

---------------------------------------------------------------------------
(* Properties of the /mcp session broker *)

BearerValues == (1..nTokens) \cup {Bogus}
\* the Bearer token is unknown, of kind refresh, or past its expiry time
BadBearer(a) ==
    \/ ~Has(tokens, a)
    \/ tokens[a].type = "refresh"
    \/ now > tokens[a].expires
\* the session stored under sid is past its expires_at
SessionExpired(sid) == now > sessions[mcpSessions[sid]].expires_at
Dispatched(r, tid) == \E i \in 1..MaxInflight : r.inflight[i].tid = tid /\ inflight[i].tid # tid

\* C6, as claimed: the session map never holds more than MAX_MCP_SESSIONS sessions,
\* however the POST /mcp handlers that create sessions interleave, and a POST that
\* names no known session while the map is full is answered 503 and creates nothing.
C6_SessionsWithinCapacity ==
    /\ Cardinality(DOMAIN mcpSessions) <= MAX_MCP_SESSIONS
    /\ AtCapacity =>
          \A sid \in SessionIds, k \in Kinds :
              ~SessionKnown(sid) => PostStartResult(Absent, sid, k) = McpAnswered(503)

\* C7, as claimed: an entry past its expiry time is treated as absent by every read,
\* swept or not: an expired code and an expired refresh token are refused by the
\* token endpoint, an expired access token fails verification, and a request that
\* names an expired session is neither dispatched to its context nor renews it.
C7_ExpiredIsAbsent ==
    /\ \A code \in DOMAIN authCodes :
          now > authCodes[code].expires =>
              \A u \in Uris, c \in ClientIdsSeen, v \in Verifiers :
                  RefusedGrant(CodeAnswer(code, u, c, v))
    /\ \A t \in DOMAIN tokens :
          now > tokens[t].expires =>
              /\ ~verifyOAuthToken(t)
              /\ RefusedGrant(RefreshAnswer(t))
    /\ \A sid \in DOMAIN mcpSessions :
          SessionExpired(sid) =>
              /\ \A k \in Kinds :
                    LET r == PostStartResult(Absent, sid, k) IN
                    /\ r.sessions = sessions
                    /\ ~Dispatched(r, mcpSessions[sid])
              /\ GetStartResult(Absent, sid) = McpAnswered(400)
              /\ DeleteStartResult(Absent, sid) = McpAnswered(404)

\* C9: a POST, GET or DELETE /mcp that presents a Bearer token which is unknown, of
\* kind refresh or expired is answered 401 and changes nothing: no transport is
\* built, no session renewed, no handler dispatched; without a Bearer token the
\* request is not answered 401.
C9_BadBearerRejected ==
    /\ \A a \in BearerValues, sid \in SessionIds :
          BadBearer(a) =>
              /\ \A k \in Kinds : PostStartResult(a, sid, k) = McpAnswered(401)
              /\ GetStartResult(a, sid) = McpAnswered(401)
              /\ DeleteStartResult(a, sid) = McpAnswered(401)
    /\ \A sid \in SessionIds :
          /\ \A k \in Kinds : PostStartResult(Absent, sid, k).status # 401
          /\ GetStartResult(Absent, sid).status # 401
          /\ DeleteStartResult(Absent, sid).status # 401

\* a session is stored, the access token has expired and the refresh token has not:
\* both are refused on that session, and the request without a token is dispatched
C9_Witness ==
    \E sid \in DOMAIN mcpSessions, a, r \in DOMAIN tokens :
        /\ tokens[a].type = "access" /\ now > tokens[a].expires
        /\ tokens[r].type = "refresh" /\ now < tokens[r].expires
        /\ FreeSlots # {}
        /\ PostStartResult(a, sid, "call").status = 401
        /\ PostStartResult(r, sid, "call").status = 401
        /\ PostStartResult(Bogus, sid, "call").status = 401
        /\ PostStartResult(Absent, sid, "call").status = Pending
        /\ Dispatched(PostStartResult(Absent, sid, "call"), mcpSessions[sid])

---------------------------------------------------------------------------
(* Properties of the OAuth endpoints, continued *)

\* C11: for a client that registered one or more redirect URIs, an approval mints a
\* code or redirects only if the submitted redirect_uri equals one of them; with any
\* other redirect_uri no code is minted and the answer is 400 (403 when the approval
\* was already refused at the CSRF check); with a registered one and an accepted
\* CSRF token the approval mints a code and redirects to it.
C11_RegisteredUriOnly ==
    \A q \in ApproveInputs :
        (Has(clients, q[2]) /\ Len(clients[q[2]].redirect_uris) > 0) =>
            LET r == ApproveAnswer(q)
                uris == clients[q[2]].redirect_uris
                registered == \E i \in 1..Len(uris) : uris[i] = q[3]
            IN  /\ (r.res.status = 302 \/ r.authCodes # authCodes) => registered
                /\ ~registered =>
                      /\ r.res.status = IF CsrfRejected(q[1]) THEN 403 ELSE 400
                      /\ r.authCodes = authCodes
                      /\ r.nCodes = nCodes
                /\ (registered /\ ~CsrfRejected(q[1])) =>
                      /\ r.res.status = 302
                      /\ r.res.out.location = q[3]
                      /\ Has(r.authCodes, r.res.out.code)

\* a client registered UriA only and holds a live CSRF token: the approval with UriA
\* is redirected, the one with UriB is answered 400
C11_Witness ==
    \E c \in DOMAIN clients, t \in DOMAIN csrfTokens :
        /\ clients[c].redirect_uris = <<UriA>>
        /\ ApproveResult(t, c, UriA, S256("abc")).res.status = 302
        /\ ApproveResult(t, c, UriB, S256("abc")).res.status = 400
        /\ ApproveResult(t, c, UriB, S256("abc")).authCodes = authCodes

\* C12: the client registry never holds more than MAX_OAUTH_CLIENTS clients, and a
\* registration that arrives when it holds that many is answered 503 and leaves the
\* registry, every stored client record included, as it was.
C12_RegistryCapped ==
    /\ Cardinality(DOMAIN clients) <= MAX_OAUTH_CLIENTS
    /\ Cardinality(DOMAIN clients) = MAX_OAUTH_CLIENTS =>
          \A r \in RegistrationUris :
              /\ RegisterResult(r).res.status = 503
              /\ RegisterResult(r).clients = clients

\* the registry is full, with clients registered in different ways, and one more
\* registration is answered 503
C12_Witness ==
    /\ Cardinality(DOMAIN clients) = MAX_OAUTH_CLIENTS
    /\ \E c, d \in DOMAIN clients : clients[c].redirect_uris # clients[d].redirect_uris
    /\ RegisterResult([isArray |-> TRUE, items |-> <<UriA>>]).res.error = "server_error"

---------------------------------------------------------------------------
(* The sweepers and the answers *)

\* a run of one of the two setInterval sweepers
SweepStep == SweepOAuth \/ SweepSessions

\* what a /mcp handler answers at once, and the context it dispatches to otherwise
McpOutcome(r) ==
    [status |-> r.status,
     contexts |-> {r.inflight[i].tid : i \in 1..MaxInflight} \ {inflight[i].tid : i \in 1..MaxInflight},
     built |-> r.nTransports - nTransports]

\* C13, as claimed: a run of a sweeper changes the answer to no request.  Every
\* request the server can receive is answered after the sweep as it would have been
\* answered before it: approvals, code and refresh exchanges, bearer verification,
\* and POST, GET and DELETE /mcp, the 503 of a full session table included.
C13_SweeperUnobservable ==
    [][SweepStep =>
        /\ \A q \in ApproveInputs : ApproveAnswer(q).res = (ApproveAnswer(q).res)'
        /\ \A code \in Presentable(authCodes, "code"), u \in Uris,
              c \in ClientIdsSeen, v \in Verifiers :
              CodeAnswer(code, u, c, v).res = (CodeAnswer(code, u, c, v).res)'
        /\ \A t \in BearerValues :
              /\ RefreshAnswer(t).res = (RefreshAnswer(t).res)'
              /\ verifyOAuthToken(t) = (verifyOAuthToken(t))'
        /\ \A a \in Bearers, sid \in SessionIds :
              /\ \A k \in Kinds :
                    McpOutcome(PostStartResult(a, sid, k)) = (McpOutcome(PostStartResult(a, sid, k)))'
              /\ McpOutcome(GetStartResult(a, sid)) = (McpOutcome(GetStartResult(a, sid)))'
              /\ McpOutcome(DeleteStartResult(a, sid)) = (McpOutcome(DeleteStartResult(a, sid)))'
    ]_vars

---------------------------------------------------------------------------
(* Properties of the /mcp session broker, continued *)

\* the handler in slot i is inside transport.handleRequest of the context tid
InContext(i, tid) == inflight[i].pc = "handle" /\ inflight[i].tid = tid

\* C14, as claimed: no two requests that bear the same session id are inside
\* transport.handleRequest of that session's context at the same time.
C14_SessionCallsSerialized ==
    \A i, j \in 1..MaxInflight :
        (/\ i # j
         /\ inflight[i].sid # Absent
         /\ inflight[i].sid = inflight[j].sid
         /\ InContext(i, inflight[i].tid))
            => ~InContext(j, inflight[i].tid)

\* the session objects after session tid was renewed at the present time
Renewed(tid) == [sessions EXCEPT ![tid].expires_at = now + SESSION_TTL]

\* C15, as claimed: a POST /mcp and a GET /mcp that bear a known session id, and
\* pass the bearer check, set the expiry of that session to the present time plus
\* SESSION_TTL, and change nothing else of the session map and the session objects.
C15_EveryCallRenews ==
    \A sid \in DOMAIN mcpSessions, a \in Bearers :
        ~McpAuthRejected(a) =>
            /\ \A k \in Kinds :
                  LET r == PostStartResult(a, sid, k) IN
                  /\ r.sessions = Renewed(mcpSessions[sid])
                  /\ r.mcpSessions = mcpSessions
                  /\ r.nTransports = nTransports
            /\ LET r == GetStartResult(a, sid) IN
               /\ r.sessions = Renewed(mcpSessions[sid])
               /\ r.mcpSessions = mcpSessions
               /\ r.nTransports = nTransports

\* the session id is unknown to the broker: GET answers 400 and DELETE 404
Gone(sid) ==
    /\ ~Has(mcpSessions, sid)
    /\ GetStartResult(Absent, sid) = McpAnswered(400)
    /\ DeleteStartResult(Absent, sid) = McpAnswered(404)

Creating(i) ==
    /\ inflight[i].method = "POST"
    /\ \/ inflight[i].pc = "connect"
       \/ inflight[i].pc = "handle" /\ sessions[inflight[i].tid].sessionId = Absent

\* C17: every POST /mcp that creates a session has a context of its own, which no
\* other handler and no stored session holds; no two session ids in the map refer
\* to the same context; every stored session id is the one its context generated,
\* and a context never changes its session id, so that an id refers to one context
\* from its creation to its removal.
C17_NoMergeNoMigration ==
    /\ [](/\ \A i \in 1..MaxInflight :
               Creating(i) =>
                   /\ \A j \in 1..MaxInflight : j # i => inflight[j].tid # inflight[i].tid
                   /\ \A sid \in DOMAIN mcpSessions : mcpSessions[sid] # inflight[i].tid
          /\ \A s1, s2 \in DOMAIN mcpSessions :
               s1 # s2 => mcpSessions[s1] # mcpSessions[s2]
          /\ \A sid \in DOMAIN mcpSessions : sessions[mcpSessions[sid]].sessionId = sid)
    /\ [][/\ \A sid \in DOMAIN mcpSessions \cap DOMAIN mcpSessions' :
               mcpSessions'[sid] = mcpSessions[sid]
          /\ \A tid \in DOMAIN sessions \cap DOMAIN sessions' :
               sessions[tid].sessionId # Absent
                   => sessions'[tid].sessionId = sessions[tid].sessionId
       ]_vars

\* two POSTs without a session id ran side by side and each stored a session: two
\* ids, two contexts
C17_Witness ==
    \E s1, s2 \in DOMAIN mcpSessions :
        /\ s1 # s2
        /\ mcpSessions[s1] # mcpSessions[s2]
        /\ sessions[mcpSessions[s1]].sessionId = s1
        /\ sessions[mcpSessions[s2]].sessionId = s2

\* C18: while the session table is full, a POST /mcp that names no known session is
\* answered 503 and leaves the map and every session object as they were, and a POST
\* that names a known session is not refused: it is dispatched to the context of
\* that session, whose expiry it renews, and the map stays as it was.
C18_FullTableKeepsSessions ==
    AtCapacity =>
        \A a \in Bearers, sid \in SessionIds, k \in Kinds :
            ~McpAuthRejected(a) =>
                LET r == PostStartResult(a, sid, k) IN
                IF sid \in DOMAIN mcpSessions
                THEN /\ r.status = Pending
                     /\ r.mcpSessions = mcpSessions
                     /\ r.sessions = Renewed(mcpSessions[sid])
                     /\ FreeSlots # {} => Dispatched(r, mcpSessions[sid])
                ELSE /\ r.status = 503
                     /\ r.mcpSessions = mcpSessions
                     /\ r.sessions = sessions
                     /\ r.inflight = inflight
                     /\ r.nTransports = nTransports

\* the table is full and time has passed since its session was stored: a new session
\* is refused with 503 while a call on the stored one is dispatched and moves its expiry
C18_Witness ==
    /\ AtCapacity
    /\ FreeSlots # {}
    /\ PostStartResult(Absent, Absent, "initialize").status = 503
    /\ \E sid \in DOMAIN mcpSessions :
          LET r == PostStartResult(Absent, sid, "call") IN
          /\ Dispatched(r, mcpSessions[sid])
          /\ r.sessions # sessions

---------------------------------------------------------------------------
(* Properties of the token endpoint, continued *)

\* C19: an authorization_code request that succeeds removes the code and nothing
\* else from the code store, and adds to the token store exactly two new records:
\* an access token that expires one hour after the exchange and a refresh token
\* that expires 30 days after it, each with the client_id stored with the code;
\* the tokens held before stay as they were, and a step that adds tokens writes
\* neither the client registry nor the CSRF store.
C19_RedemptionIssuesOnePair ==
    /\ [][DOMAIN tokens' \ DOMAIN tokens # {} => UNCHANGED <<clients, csrfTokens>>]_vars
    /\ [](\A code \in DOMAIN authCodes, u \in Uris, c \in ClientIdsSeen, v \in Verifiers :
        LET r == CodeAnswer(code, u, c, v) IN
        r.res.status = 200 =>
            LET a  == r.res.out.access_token
                rt == r.res.out.refresh_token
                owner == authCodes[code].client_id
            IN  /\ r.authCodes = [k \in DOMAIN authCodes \ {code} |-> authCodes[k]]
                /\ a # rt /\ ~Has(tokens, a) /\ ~Has(tokens, rt)
                /\ DOMAIN r.tokens = DOMAIN tokens \cup {a, rt}
                /\ \A k \in DOMAIN tokens : r.tokens[k] = tokens[k]
                /\ r.tokens[a] = [type |-> "access", client_id |-> owner,
                                  expires |-> now + 3600]
                /\ r.tokens[rt] = [type |-> "refresh", client_id |-> owner,
                                   expires |-> now + 30 * 86400]
                /\ r.nTokens = nTokens + 2)

\* a code of a registered client is live at a time after 0 and its exchange succeeds
C19_Witness ==
    \E code \in DOMAIN authCodes :
        LET ac == authCodes[code] IN
        /\ now > 0
        /\ CodeAnswer(code, ac.redirect_uri, ac.client_id, "abc").res.status = 200
        /\ Cardinality(DOMAIN CodeAnswer(code, ac.redirect_uri, ac.client_id, "abc").tokens)
              = Cardinality(DOMAIN tokens) + 2

\* C20: a stored token of type access that is presented as refresh_token is refused
\* with invalid_grant and rotates nothing, and a stored token of type refresh that
\* is presented as Bearer token fails verification, so that POST, GET and DELETE
\* /mcp answer 401.
C20_TokenKindsKeptApart ==
    \A t \in DOMAIN tokens :
        /\ tokens[t].type = "access" => RefusedGrant(RefreshAnswer(t))
        /\ tokens[t].type = "refresh" =>
              /\ ~verifyOAuthToken(t)
              /\ \A sid \in SessionIds :
                    /\ \A k \in Kinds : PostStartResult(t, sid, k).status = 401
                    /\ GetStartResult(t, sid).status = 401
                    /\ DeleteStartResult(t, sid).status = 401

\* an access and a refresh token are live: each is accepted where it belongs and
\* refused in the place of the other
C20_Witness ==
    \E a, r \in DOMAIN tokens :
        /\ tokens[a].type = "access" /\ tokens[r].type = "refresh"
        /\ verifyOAuthToken(a)
        /\ RefreshAnswer(r).res.status = 200
        /\ RefreshAnswer(a).res.error = "invalid_grant"
        /\ PostStartResult(r, Absent, "initialize").status = 401

---------------------------------------------------------------------------
(* GET /oauth/authorize: rejections and the CSRF store *)

AuthorizeInputs == (ClientIdsSeen \cup {Absent}) \X Uris \X (Challenges \cup {""})
AuthorizeAnswer(q) == AuthorizeResult(q[1], q[2], q[3])
\* the consent page was rendered
Rendered(r) == r.res.status = 200

\* C21: GET /oauth/authorize answers 400 and leaves the CSRF store and the count of
\* minted CSRF tokens as they were when client_id, redirect_uri or code_challenge is
\* missing or client_id names no registered client; and a step puts a key into the
\* CSRF store only when it is an authorize request whose consent page is rendered,
\* and that key is the token embedded in the page.
C21_AuthorizeRejections ==
    /\ [](\A q \in AuthorizeInputs :
            (q[1] = Absent \/ q[2] \in {Undefined, ""} \/ q[3] \in {Undefined, ""}
               \/ q[1] \notin DOMAIN clients) =>
                /\ AuthorizeAnswer(q).res.status = 400
                /\ AuthorizeAnswer(q).csrfTokens = csrfTokens
                /\ AuthorizeAnswer(q).nCsrf = nCsrf)
    /\ [][\A k \in DOMAIN csrfTokens' \ DOMAIN csrfTokens :
            \E q \in AuthorizeInputs :
                /\ Rendered(AuthorizeAnswer(q))
                /\ AuthorizeAnswer(q).res.out.csrf = k
                /\ csrfTokens' = AuthorizeAnswer(q).csrfTokens]_vars

\* a consent page was rendered for a registered client and its CSRF token is in the
\* store, while a request without a code_challenge and one naming an unknown client
\* are answered 400
C21_Witness ==
    /\ nCsrf = 1
    /\ Has(csrfTokens, 1)
    /\ Has(clients, 1)
    /\ AuthorizeResult(1, UriA, Undefined).res.status = 400
    /\ AuthorizeResult(Bogus, UriA, S256("abc")).res.error = "Unknown client"

---------------------------------------------------------------------------
(* POST /oauth/register: what is stored of redirect_uris *)

\* the longest redirect_uris array a registration request carries
LongestRequest ==
    CHOOSE n \in 0..Cardinality(Uris) :
        /\ \E r \in RegistrationUris : Len(r.items) = n
        /\ \A r \in RegistrationUris : Len(r.items) <= n

\* C22: there is a cap on the number of redirect URIs of a client record that takes
\* effect on the requests sent, i.e. a number smaller than the longest redirect_uris
\* array of a request, such that every client record in the registry holds at most
\* that many redirect_uris, each of at most 2048 characters.
C22_RedirectUrisCapped ==
    \E cap \in 0..(LongestRequest - 1) :
        \A c \in DOMAIN clients :
            /\ Len(clients[c].redirect_uris) <= cap
            /\ \A i \in 1..Len(clients[c].redirect_uris) :
                  Len(clients[c].redirect_uris[i]) <= 2048

---------------------------------------------------------------------------
(* The rate limiter *)

\* the window of `ip` is running
WindowOpen(ip) == Has(apiLimits, ip) /\ now <= apiLimits[ip].reset

\* C23: for every address and every guarded route with limit max, the requests
\* admitted to the route in one window of the address number at most max; once max
\* of them were admitted, every further request to the route in that window is
\* answered 429 and changes nothing; and once the window is over the next request is
\* admitted, whatever the count had reached.
C23_RateLimitPerWindow ==
    \A ip \in Ips, route \in Routes :
        LET max == Limit(route) IN
        /\ admitted[ip][route] <= max
        /\ (WindowOpen(ip) /\ admitted[ip][route] = max) =>
              /\ ~rateGuard(ip, max).next
              /\ rateGuard(ip, max).res.status = 429
              /\ rateGuard(ip, max).apiLimits = apiLimits
        /\ (Has(apiLimits, ip) /\ now > apiLimits[ip].reset) =>
              /\ rateGuard(ip, max).next
              /\ rateGuard(ip, max).apiLimits[ip].count = 1

\* one address has used up the batch limit in its running window and is refused
\* there, while the window of another address that had used up the same limit is
\* over and its next request is admitted
C23_Witness ==
    \E ip, other \in Ips :
        /\ ip # other
        /\ WindowOpen(ip)
        /\ admitted[ip]["batch"] = LimitBatch
        /\ ~rateGuard(ip, LimitBatch).next
        /\ Has(apiLimits, other)
        /\ now > apiLimits[other].reset
        /\ admitted[other]["batch"] = LimitBatch
        /\ rateGuard(other, LimitBatch).next

---------------------------------------------------------------------------
(* The consent page as a browser reads it *)

\* the character references escHtml produces, and the characters they stand for
References ==
    {[ref |-> Chars("&amp;"), ch |-> "&"], [ref |-> Chars("&quot;"), ch |-> "\""],
     [ref |-> Chars("&lt;"), ch |-> "<"], [ref |-> Chars("&gt;"), ch |-> ">"],
     [ref |-> Chars("&#39;"), ch |-> "'"]}

StartsWith(text, prefix) ==
    Len(text) >= Len(prefix) /\ SubSeq(text, 1, Len(prefix)) = prefix

RECURSIVE Decoded(_)
\* an attribute value with its character references replaced
Decoded(text) ==
    IF text = <<>> THEN <<>>
    ELSE IF \E e \in References : StartsWith(text, e.ref)
    THEN LET e == CHOOSE x \in References : StartsWith(text, x.ref) IN
         <<e.ch>> \o Decoded(SubSeq(text, Len(e.ref) + 1, Len(text)))
    ELSE <<Head(text)>> \o Decoded(Tail(text))

\* what is read from markup that is not a sequence of inputs
Malformed == <<[name |-> "?", value |-> <<>>]>>

RECURSIVE ReadInputs(_)
\* the inputs of a form: a value runs from the quote that opens it to the next quote
ReadInputs(text) ==
    IF text = <<>> THEN <<>>
    ELSE IF Len(text) < 6 \/ ~StartsWith(text, InputOpen(text[2])) THEN Malformed
    ELSE LET quotes == {j \in 5..Len(text) : text[j] = "\""} IN
         IF quotes = {} THEN Malformed
         ELSE LET j == CHOOSE x \in quotes : \A y \in quotes : x <= y IN
              IF j = Len(text) \/ text[j + 1] # ">" THEN Malformed
              ELSE <<[name |-> text[2], value |-> Decoded(SubSeq(text, 5, j - 1))]>>
                   \o ReadInputs(SubSeq(text, j + 2, Len(text)))

\* the handler has answered, and the query passed its checks: the consent page was sent
PageIsForm ==
    /\ page # <<>>
    /\ query.client_id = ClientText
    /\ query.redirect_uri # <<>>
    /\ query.code_challenge # <<>>

\* C24: whatever text the parameters of the query carry, the consent page holds
\* exactly the seven hidden inputs of the template, and the value a browser reads
\* from each is the text of the parameter it was rendered from (or its default, or
\* the CSRF token): no parameter closes its attribute or adds markup to the page.
C24_InterpolatedValuesEscaped ==
    PageIsForm =>
        /\ Len(ReadInputs(page)) = Len(FieldNames)
        /\ \A i \in 1..Len(FieldNames) :
              /\ ReadInputs(page)[i].name = FieldNames[i]
              /\ ReadInputs(page)[i].value = FormValues(CsrfText, query)[i]

\* a consent page was rendered for a query whose redirect_uri and state close the
\* attribute and open a tag, whose code_challenge reads like a character reference
\* and whose scope carries a quote and an ampersand
C24_Witness ==
    /\ PageIsForm
    /\ query.redirect_uri = <<"\"", ">", "<", "b", ">">>
    /\ query.state = <<"\"", ">", "<", "b", ">">>
    /\ query.code_challenge = <<"&", "l", "t", ";">>
    /\ query.scope = <<"'", "&">>
    /\ Len(page) > 7 * 6

---------------------------------------------------------------------------
(* PKCE over the whole grant *)

\* C25: every authorization code in the store carries a non-empty code_challenge,
\* and no authorization_code request without a code_verifier, or with one whose
\* S256 hash differs from the code's challenge, is granted a token pair.
C25_PkceForWholeGrant ==
    \A code \in DOMAIN authCodes :
        /\ ~Falsy(authCodes[code].code_challenge)
        /\ \A u \in Uris, c \in ClientIdsSeen, v \in Verifiers :
              CodeAnswer(code, u, c, v).res.status = 200 =>
                  /\ ~Falsy(v)
                  /\ S256(v) = authCodes[code].code_challenge

---------------------------------------------------------------------------
(* The CSRF token and the client of the consent page *)

\* C26: when a step renders the consent page for a client and puts the page's CSRF
\* token into the store, no approval that presents this token with the client_id of
\* a different client mints an authorization code.
C26_CsrfBoundToClient ==
    [][\A q \in AuthorizeInputs, k \in CsrfValues :
          (/\ Rendered(AuthorizeAnswer(q))
           /\ AuthorizeAnswer(q).res.out.csrf = k
           /\ csrfTokens' = AuthorizeAnswer(q).csrfTokens
           /\ nCsrf' = k)
          => \A other \in ClientIdsSeen \ {q[1]}, u \in Uris, ch \in Challenges :
                /\ (ApproveResult(k, other, u, ch).nCodes)' = nCodes'
                /\ (ApproveResult(k, other, u, ch).authCodes)' = authCodes']_vars

---------------------------------------------------------------------------
(* POST /oauth/approve: code-issued only on the way to redirected *)

\* C27: every approval that ends without the 302 redirect, whatever it submitted,
\* leaves the code store as it was and mints no code.
C27_CodeOnlyWithRedirect ==
    \A q \in ApproveInputs :
        ApproveAnswer(q).res.status # 302 =>
            /\ ApproveAnswer(q).authCodes = authCodes
            /\ ApproveAnswer(q).nCodes = nCodes

---------------------------------------------------------------------------
(* POST /oauth/token: a refused request leaves the stores alone *)

\* the request does not match the code: another client_id, another redirect_uri, or,
\* for a code with a challenge, no verifier or one whose hash differs
Mismatch(a, u, c, v) ==
    \/ c # a.client_id
    \/ u # a.redirect_uri
    \/ /\ a.code_challenge \notin {Undefined, ""}
       /\ (v \in {Undefined, ""} \/ S256(v) # a.code_challenge)

\* C28: for a code in the store that has not expired, every authorization_code
\* request that presents it with a mismatching client_id, redirect_uri or verifier is
\* answered 400 invalid_grant and leaves the code store, the token store and the
\* count of issued tokens as they were, so that the matching request is still
\* granted; and a request with another grant_type is answered 400
\* unsupported_grant_type and leaves them as they were too.
C28_RefusedRequestChangesNothing ==
    /\ \A code \in DOMAIN authCodes :
          LET a == authCodes[code] IN
          now <= a.expires =>
            /\ \A u \in Uris, c \in ClientIdsSeen, v \in Verifiers :
                  Mismatch(a, u, c, v) =>
                      LET r == CodeAnswer(code, u, c, v) IN
                      /\ r.res.status = 400
                      /\ r.res.error = "invalid_grant"
                      /\ r.authCodes = authCodes
                      /\ r.tokens = tokens
                      /\ r.nTokens = nTokens
            /\ \E v \in Verifiers :
                  /\ ~Mismatch(a, a.redirect_uri, a.client_id, v)
                  /\ CodeAnswer(code, a.redirect_uri, a.client_id, v).res.status = 200
    /\ \A code \in Presentable(authCodes, "code"), rt \in Presentable(tokens, "refresh") :
          LET r == TokenResult("password", code, UriA, 1, "abc", rt) IN
          /\ r.res.status = 400
          /\ r.res.error = "unsupported_grant_type"
          /\ r.authCodes = authCodes
          /\ r.tokens = tokens
          /\ r.nTokens = nTokens

\* a live code with a challenge, at the last instant of its lifetime: requests with the wrong client, the wrong redirect_uri and the wrong verifier are
\* refused, and the matching request is granted
C28_Witness ==
    \E code \in DOMAIN authCodes :
        LET a == authCodes[code] IN
        /\ now = a.expires
        /\ a.code_challenge = S256("abc")
        /\ a.redirect_uri = UriA
        /\ CodeAnswer(code, UriA, Bogus, "abc").res.error = "invalid_grant"
        /\ CodeAnswer(code, UriB, a.client_id, "abc").res.error = "invalid_grant"
        /\ CodeAnswer(code, UriA, a.client_id, S256("abc")).res.desc
               = "PKCE verification failed"
        /\ CodeAnswer(code, UriA, a.client_id, "abc").res.status = 200

---------------------------------------------------------------------------
(* Codes and tokens refer to registered clients *)

\* C29: every authorization code and every access or refresh token in the stores
\* carries the client_id of a client that is in the registry.
C29_ClientIdsRegistered ==
    /\ \A code \in DOMAIN authCodes : authCodes[code].client_id \in DOMAIN clients
    /\ \A t \in DOMAIN tokens : tokens[t].client_id \in DOMAIN clients

\* the registry holds two clients, and the tokens in the store, issued by a code
\* exchange and rotated by a refresh exchange, belong to the second one
C29_Witness ==
    /\ Cardinality(DOMAIN clients) = 2
    /\ Redeemed("code", 1)
    /\ \E rt \in TokenValues : Redeemed("refresh", rt)
    /\ \E t \in DOMAIN tokens : tokens[t].type = "refresh" /\ tokens[t].client_id = 2

---------------------------------------------------------------------------
(* Counting consent pages, consumed CSRF tokens and codes *)

\* the CSRF tokens approvals have consumed
Consumed == {k \in CsrfValues : Redeemed("csrf", k)}

\* C30: the number of authorization codes ever minted is at most the number of CSRF
\* tokens approvals have consumed, which is at most the number of consent pages
\* rendered.
C30_CodesWithinConsents ==
    /\ nCodes <= Cardinality(Consumed)
    /\ Cardinality(Consumed) <= nCsrf

\* one consent page was rendered, an approval consumed its CSRF token and minted a
\* code, and a second approval with the same token is refused although the run may
\* mint another code
C30_Witness ==
    /\ nCsrf = 1
    /\ Consumed = {1}
    /\ nCodes = 1
    /\ nCodes < MaxCodes
    /\ Cardinality(DOMAIN authCodes) = 1
    /\ \A q \in ApproveInputs : q[1] = 1 => ApproveAnswer(q).res.status = 403

---------------------------------------------------------------------------
(* Refresh tokens: one chain per redeemed code *)

RefreshTokens == {t \in DOMAIN tokens : tokens[t].type = "refresh"}
RedeemedCodes == {code \in Codes : Redeemed("code", code)}

\* C31: the refresh tokens in the token store number at most the authorization
\* codes that were exchanged for tokens.
C31_OneRefreshChainPerCode ==
    Cardinality(RefreshTokens) <= Cardinality(RedeemedCodes)

\* one code was exchanged and its refresh token was rotated twice: the store holds
\* the one refresh token of the last rotation, which is still accepted
C31_Witness ==
    /\ Cardinality(RedeemedCodes) = 1
    /\ Cardinality({rt \in TokenValues : Redeemed("refresh", rt)}) = 2
    /\ Cardinality(RefreshTokens) = 1
    /\ \E rt \in RefreshTokens : RefreshAnswer(rt).res.status = 200

---------------------------------------------------------------------------
(* A removed session stays removed *)

\* a session id that was issued is entered in the map by the step that issues it, so
\* an issued id that is not in the map has been removed from it
Removed(sid) == sid \in 1..nSids /\ ~Has(mcpSessions, sid)

\* C32: no step puts a session id back into the map that was removed from it.
C32_NoResurrection ==
    [][\A sid \in 1..MaxTransports : Removed(sid) => ~Has(mcpSessions', sid)]_vars

---------------------------------------------------------------------------
(* A session id that was handed out is known *)

\* the request is dispatched to the context `tid` and no context is constructed
DispatchedTo(r, tid) ==
    /\ r.status = Pending
    /\ r.nTransports = nTransports
    /\ r.mcpSessions = mcpSessions
    /\ FreeSlots # {} => Dispatched(r, tid)

\* C33: the step in which a context generates a session id, which the response
\* carries to the caller, enters the id in the map under that context; and as long as
\* the id has not been removed from the map, every POST, GET and DELETE that bears
\* it (and is not refused for its bearer token) is dispatched to the context that
\* generated the id, and constructs no context.
C33_IssuedIdIsKnown ==
    /\ [](\A sid \in DOMAIN mcpSessions :
            LET tid == mcpSessions[sid] IN
            /\ sessions[tid].sessionId = sid
            /\ \A a \in Bearers :
                  ~McpAuthRejected(a) =>
                      /\ \A k \in Kinds : DispatchedTo(PostStartResult(a, sid, k), tid)
                      /\ DispatchedTo(GetStartResult(a, sid), tid)
                      /\ DispatchedTo(DeleteStartResult(a, sid), tid))
    /\ [][nSids' # nSids =>
            /\ nSids' = nSids + 1
            /\ Has(mcpSessions', nSids')
            /\ sessions'[mcpSessions'[nSids']].sessionId = nSids'
            /\ \E i \in 1..MaxInflight :
                  /\ inflight[i].kind = "initialize"
                  /\ inflight[i].tid = mcpSessions'[nSids']
                  /\ sessions[inflight[i].tid].sessionId = Absent]_vars

\* two sessions were created; a call bearing the id of the second is dispatched to
\* the second context and constructs none
C33_Witness ==
    /\ nSids = 2
    /\ Has(mcpSessions, 2)
    /\ mcpSessions[2] = 2
    /\ FreeSlots # {}
    /\ Dispatched(PostStartResult(Absent, 2, "call"), 2)
    /\ PostStartResult(Absent, 2, "call").nTransports = nTransports

----------------------------------------------------------------------------
\* Quiescence: the stores after the requests stop (part_000 316-321, 533-537)

\* the last moment at which a request arrives, and at which an awaited
\* connect or handleRequest of an earlier POST /mcp resumes
LastArrival == CODE_TTL
LastResumption == LastArrival + REFRESH_TTL
MaxLiveTime == LastResumption + SESSION_TTL + 1

\* time 0 of a server that registered one client, served two consent pages
\* and approved one of them
InitLive ==
    /\ now = 0
    /\ nCsrf = 2
    /\ nCodes = 1
    /\ nTokens = 0
    /\ clients = (1 :> [client_id |-> 1, redirect_uris |-> <<UriA>>])
    /\ authCodes = (1 :> [client_id |-> 1, redirect_uri |-> UriA,
                          code_challenge |-> S256("abc"),
                          code_challenge_method |-> "S256",
                          scope |-> "mcp:tools", expires |-> CODE_TTL])
    /\ tokens = <<>>
    /\ csrfTokens = (2 :> [expires |-> CSRF_TTL])
    /\ used = {<<"csrf", 1>>}
    /\ mcpSessions = <<>>
    /\ sessions = <<>>
    /\ inflight = [i \in 1..MaxInflight |-> NoRequest]
    /\ nTransports = 0
    /\ nSids = 0
    /\ apiLimits = <<>>
    /\ admitted = NoneAdmitted
    /\ query = NoQuery
    /\ page = <<>>
    /\ InitCache

\* requests that put something into a store, while requests still arrive
Arrival ==
    /\ now <= LastArrival
    /\ \/ \E q \in ApproveRequests : Approve(q[1], q[2], q[3], q[4])
       \/ \E q \in CodeRequests :
             Token("authorization_code", q[1], q[2], q[3], q[4], Absent)
       \/ \E rt \in Presentable(tokens, "refresh") :
             Token("refresh_token", Absent, Undefined, Absent, Undefined, rt)
       \/ /\ \A i \in 1..MaxInflight : inflight[i] = NoRequest
          /\ \E sid \in SessionIds, k \in Kinds : PostStart(Absent, sid, k)

\* the continuations of a POST /mcp that arrived earlier
Resumption ==
    /\ now <= LastResumption
    /\ \/ \E i \in 1..MaxInflight : PostConnected(i)
       \/ \E i \in 1..MaxInflight : PostHandled(i)

TickLive == TickUpTo(MaxLiveTime)

NextLive == Arrival \/ Resumption \/ SweepOAuth \/ SweepSessions \/ TickLive

\* both setInterval timers keep firing and the clock keeps advancing
SpecLive ==
    /\ InitLive
    /\ [][NextLive]_vars
    /\ WF_vars(SweepOAuth)
    /\ WF_vars(SweepSessions)
    /\ WF_vars(TickLive)

StoresEmpty ==
    /\ authCodes = <<>>
    /\ tokens = <<>>
    /\ csrfTokens = <<>>
    /\ mcpSessions = <<>>

\* C34: with both sweepers and the clock fairly scheduled, once requests stop
\* arriving every authorization code, access token, refresh token, CSRF token
\* and session is eventually removed from its store, and the stores stay empty
C34_StoresEventuallyEmpty == <>[]StoresEmpty

\* the stores are empty after tokens were issued and a session was opened
C34_Witness ==
    /\ StoresEmpty
    /\ nTokens >= 2
    /\ nSids >= 1
    /\ now > LastResumption

----------------------------------------------------------------------------
\* The client registry over time (part_000 309-321, 350-367)

\* C35: a registered client record is permanent and immutable: no step removes
\* or changes it, so a client_id that once resolved resolves forever, and once
\* the registry is at its cap it stays there and every registration is
\* answered 503 and leaves the registry alone
C35_ClientsPermanent ==
    /\ [](RegistryFull =>
            \A r \in RegistrationUris :
                /\ RegisterResult(r).res.status = 503
                /\ RegisterResult(r).clients = clients)
    /\ [][/\ \A c \in DOMAIN clients : Has(clients', c) /\ clients'[c] = clients[c]
          /\ RegistryFull => RegistryFull']_vars

\* the registry is at its cap, with codes and tokens issued and swept
C35_Witness ==
    /\ RegistryFull
    /\ nTokens >= 2
    /\ now > CODE_TTL
    /\ authCodes = <<>>

----------------------------------------------------------------------------
\* The budgets of the guarded routes (part_000 278-297, 601-721)

\* C36: the budgets of the guarded routes are independent per address: while
\* the window of an address is open, a route that has admitted fewer requests
\* than its limit from that address admits the next one, whatever the other
\* routes have admitted
C36_BudgetsIndependent ==
    \A ip \in Ips, route \in Routes :
        (WindowOpen(ip) /\ admitted[ip][route] < Limit(route)) =>
            rateGuard(ip, Limit(route)).next

----------------------------------------------------------------------------
\* The report cache (part_003 6-58)

NextCache ==
    \/ \E key \in Keys : CacheGet(key)
    \/ \E key \in Keys, value \in Values : CacheSet(key, value)
    \/ \E key \in Keys : CacheHas(key)
    \/ \E key \in Keys : CacheDelete(key)
    \/ CacheClear
    \/ SweepSessions
    \/ TickCache

SpecCache == Init /\ [][NextCache]_vars

\* C37: after any sequence of get, set, has, delete, clear and prune calls the
\* cache holds at most max entries, no key twice
C37_AtMostMaxEntries ==
    /\ size <= VinCacheMax
    /\ \A i, j \in 1..Len(vinCache) : vinCache[i].key = vinCache[j].key => i = j

\* the cache is full after more keys were set than it holds, and the set of
\* one more key evicts
C37_Witness ==
    /\ size = VinCacheMax
    /\ Len(recency) > VinCacheMax
    /\ \E key \in Keys, value \in Values :
          /\ ~mapHas(vinCache, key)
          /\ set(key, value).oldest # Undefined
          /\ Len(set(key, value).map) = VinCacheMax

CachedKeys == {vinCache[i].key : i \in 1..Len(vinCache)}
\* the keys of `among` in the order of their last use
InOrder(order, among) == SelectSeq(order, LAMBDA k : k \in among)
\* what a set that evicts must do when `order` is the order of last use: the
\* evicted key is the least recently used of the other cached keys
EvictsOldestOf(order) ==
    \A key \in Keys, value \in Values :
        LET r == set(key, value) IN
        /\ mapHas(r.map, key)
        /\ r.oldest # Undefined =>
              /\ r.oldest # key
              /\ r.oldest = InOrder(order, CachedKeys \ {key})[1]
              /\ mapKeys(r.map) = Append(Tail(InOrder(order, CachedKeys \ {key})), key)

\* C38 (as stated): a set that pushes the cache over max removes the entry
\* whose last set or successful call of get is oldest, never the key just set
C38_EvictsLeastRecentGetOrSet == EvictsOldestOf(lastGetSet)

\* C38 (amended): a set that pushes the cache over max removes the entry whose
\* last set or successful read, by get or by has, is oldest, never the key just
\* set; the cache keeps its entries in the order of their last set or successful
\* read, so a get, a has or a set of a key makes it the most recently used
C38_EvictsLeastRecentlyUsed ==
    /\ EvictsOldestOf(recency)
    /\ mapKeys(vinCache) = InOrder(recency, CachedKeys)

\* the cache is full, a read has moved the entry that was set first behind one
\* that was set later, and the set of a new key evicts the one set later
C38_Witness ==
    \E key \in Keys, other \in CachedKeys :
        /\ size = VinCacheMax
        /\ ~mapHas(vinCache, key)
        /\ set(key, "report1").oldest # Undefined
        /\ set(key, "report1").oldest # other
        /\ setAt[other] < setAt[set(key, "report1").oldest]

\* the lifetime of `key`, counted from its last set, is over
TtlElapsed(key) == setAt[key] = Bogus \/ now > setAt[key] + VinCacheTtl

\* C39: get and has never report a value whose TTL, counted from the last set
\* of its key, has elapsed, whether or not prune has removed the entry; and
\* every cached entry expires one TTL after the last set of its key, whatever
\* reads came in between
C39_NoValuePastTtl ==
    /\ \A key \in Keys :
          /\ get(key).value # Undefined => ~TtlElapsed(key)
          /\ has(key).value => ~TtlElapsed(key)
    /\ \A i \in 1..Len(vinCache) :
          vinCache[i].expires = setAt[vinCache[i].key] + VinCacheTtl

\* an entry whose TTL has elapsed is still in the cache, unpruned and read
\* before it expired, and get and has do not report it, while a key set later
\* is reported
C39_Witness ==
    \E key, other \in Keys :
        /\ mapHas(vinCache, key)
        /\ TtlElapsed(key)
        /\ mapKeys(vinCache) = <<other, key>>
        /\ setAt[key] < setAt[other]
        /\ get(key).value = Undefined
        /\ ~has(key).value
        /\ get(other).value # Undefined
        /\ has(other).value

====
